---- MODULE Spec2Model ----
(***************************************************************************)
(* Model of k8s-resource-collector (src/cmd/main.go): the ResourceKey      *)
(* normalizer, the deprecation policy engine, the must-gather ingestion    *)
(* parser, the single-file serializer and the diff engine.                 *)
(*                                                                         *)
(* Go strings are sequences of one-character strings, so that the string   *)
(* operations of the code (Split, TrimSpace, HasPrefix, ReplaceAll,        *)
(* ToLower) are computed as the code computes them.  Str turns such a      *)
(* sequence into a TLA+ string, which is used to state expected values.    *)
(***************************************************************************)
EXTENDS Integers, Sequences, FiniteSets, TLC

VARIABLES
    \* ---- identifiers emitted for one resource type (live and offline) ----
    resType,         \* [gv, kind, name]: a served resource type
    emitted,         \* identifiers emitted so far, by output form
    \* ---- deprecation policy engine ----
    server,          \* what the discovery client answers (version, groups)
    clusterVersion,  \* *ClusterVersion of detectClusterVersion, or NoVersion
    query,           \* [gv, name]: the resource isDeprecated is asked about
    verdict,         \* result of isDeprecated
    \* ---- must-gather ingestion and single-file rendering ----
    bundle,          \* the files of the must-gather directory, in walk order
    fileIdx,         \* number of files the directory walk has visited
    fileErrs,        \* what processMustGatherFile returned for each visited file
    resourceMap,     \* map[string][]interface{}: key -> items
    outputs,         \* the single-file renderings written so far
    dirOutput,       \* the files and counts of a directory-mode must-gather run
    \* ---- diff engine ----
    content1,        \* first rendered stream
    content2,        \* second rendered stream
    diff,            \* what generateDiff computed and wrote
    \* ---- live collection run ----
    liveEnv,         \* what the cluster answers: discovered resources, failures
    livePc,          \* position of the collection function
    resIdx,          \* number of discovered resources the loop has handled
    counts,          \* collectedCount, errorCount, skippedCount
    calls,           \* calls made per resource: shouldSkipResource, List
    liveErr,         \* the error the collection function returned
    buffer,          \* allResourcesYaml, the stream a single-file run builds
    \* ---- command line ----
    flags,           \* the flag values and what their paths hold
    run,             \* what runCollector did: mode started, error, side effects
    \* ---- comparison run ----
    sourceNames,     \* names of the two compared sources
    compareDir,      \* the comparison directory: file name -> content
    \* ---- ResourceKey normalizer ----
    keyInput,        \* [groupVersion, name]: the strings a key is built from
    keyOutput        \* the key and the file names built from keyInput

vars == <<resType, emitted, server, clusterVersion, query, verdict,
          bundle, fileIdx, fileErrs, resourceMap, outputs, dirOutput, content1, content2, diff,
          liveEnv, livePc, resIdx, counts, calls, liveErr, buffer,
          flags, run, sourceNames, compareDir, keyInput, keyOutput>>

keyVars    == <<resType, emitted>>
depVars    == <<server, clusterVersion, query, verdict>>
ingestVars == <<bundle, fileIdx, fileErrs, resourceMap, outputs, dirOutput>>
diffVars   == <<content1, content2, diff>>
liveVars   == <<liveEnv, livePc, resIdx, counts, calls, liveErr, buffer>>
cmdVars    == <<flags, run>>
cmpVars    == <<sourceNames, compareDir>>
normVars   == <<keyInput, keyOutput>>

(***************************************************************************)
(* Strings                                                                 *)
(***************************************************************************)

\* The characters the model uses, in ASCII order.
ASCII ==
    << "\n", " ", "\"", "#", "'", "*", "+", "-", ".", "/",
       "0", "1", "2", "3", "4", "5", "6", "7", "8", "9",
       ":", "<", ">", "?",
       "A", "B", "C", "D", "E", "F", "G", "H", "I", "J", "K", "L", "M",
       "N", "O", "P", "Q", "R", "S", "T", "U", "V", "W", "X", "Y", "Z",
       "[", "\\", "]",
       "a", "b", "c", "d", "e", "f", "g", "h", "i", "j", "k", "l", "m",
       "n", "o", "p", "q", "r", "s", "t", "u", "v", "w", "x", "y", "z",
       "{", "|" >>

Ord(c) == CHOOSE i \in 1..Len(ASCII) : ASCII[i] = c

\* The TLA+ string spelled by a sequence of characters.
RECURSIVE Str(_)
Str(s) == IF s = <<>> THEN "" ELSE Head(s) \o Str(Tail(s))

\* Go's < on strings (bytewise lexicographic order).
RECURSIVE StrLess(_, _)
StrLess(a, b) ==
    IF b = <<>> THEN FALSE
    ELSE IF a = <<>> THEN TRUE
    ELSE IF Head(a) = Head(b) THEN StrLess(Tail(a), Tail(b))
    ELSE Ord(Head(a)) < Ord(Head(b))

\* strings.HasPrefix / strings.HasSuffix
HasPrefix(s, p) == Len(s) >= Len(p) /\ SubSeq(s, 1, Len(p)) = p
HasSuffix(s, p) == Len(s) >= Len(p) /\ SubSeq(s, Len(s) - Len(p) + 1, Len(s)) = p

\* strings.Index: position of the first occurrence of sep in s, 0 if none.
Index(s, sep) ==
    LET hits == { i \in 1..(Len(s) - Len(sep) + 1) : SubSeq(s, i, i + Len(sep) - 1) = sep }
    IN  IF hits = {} THEN 0 ELSE CHOOSE i \in hits : \A j \in hits : i <= j

\* strings.Contains
Contains(s, sep) == Index(s, sep) # 0

\* strings.Split(s, sep) for a non-empty sep
RECURSIVE Split(_, _)
Split(s, sep) ==
    LET i == Index(s, sep)
    IN  IF i = 0 THEN << s >>
        ELSE << SubSeq(s, 1, i - 1) >> \o Split(SubSeq(s, i + Len(sep), Len(s)), sep)

\* strings.SplitN(s, sep, 2)
SplitN2(s, sep) ==
    LET i == Index(s, sep)
    IN  IF i = 0 THEN << s >>
        ELSE << SubSeq(s, 1, i - 1), SubSeq(s, i + Len(sep), Len(s)) >>

IsSpace(c) == c \in { " ", "\n", "\t", "\r" }

\* strings.TrimSpace
RECURSIVE TrimLeft(_)
TrimLeft(s) == IF s # <<>> /\ IsSpace(Head(s)) THEN TrimLeft(Tail(s)) ELSE s

RECURSIVE TrimRight(_)
TrimRight(s) ==
    IF s # <<>> /\ IsSpace(s[Len(s)]) THEN TrimRight(SubSeq(s, 1, Len(s) - 1)) ELSE s

TrimSpace(s) == TrimRight(TrimLeft(s))

\* strings.TrimSuffix
TrimSuffix(s, suffix) ==
    IF HasSuffix(s, suffix) THEN SubSeq(s, 1, Len(s) - Len(suffix)) ELSE s

\* strings.ToLower on ASCII letters
ToLowerChar(c) ==
    IF Ord(c) >= Ord("A") /\ Ord(c) <= Ord("Z")
    THEN ASCII[Ord(c) - Ord("A") + Ord("a")]
    ELSE c

ToLower(s) == [ i \in 1..Len(s) |-> ToLowerChar(s[i]) ]

\* strings.ReplaceAll(s, old, new) for a one-character old
ReplaceAll(s, old, new) == [ i \in 1..Len(s) |-> IF s[i] = old THEN new ELSE s[i] ]

\* strings.NewReplacer("/", "-", "\\", "-", ...).Replace: every unsafe
\* character becomes "-".
UnsafeChars == { "/", "\\", ":", "*", "?", "\"", "<", ">", "|", " " }

ReplacerReplace(s) == [ i \in 1..Len(s) |-> IF s[i] \in UnsafeChars THEN "-" ELSE s[i] ]

\* strconv.Atoi on an unsigned decimal: [ok, n]
Digits == { "0", "1", "2", "3", "4", "5", "6", "7", "8", "9" }

RECURSIVE DecValue(_)
DecValue(s) ==
    IF s = <<>> THEN 0
    ELSE 10 * DecValue(SubSeq(s, 1, Len(s) - 1)) + (Ord(s[Len(s)]) - Ord("0"))

Atoi(s) ==
    IF s # <<>> /\ \A i \in 1..Len(s) : s[i] \in Digits
    THEN [ok |-> TRUE, n |-> DecValue(s)]
    ELSE [ok |-> FALSE, n |-> 0]

\* Concatenation of a sequence of strings.
RECURSIVE Concat(_)
Concat(ss) == IF ss = <<>> THEN <<>> ELSE Head(ss) \o Concat(Tail(ss))

(***************************************************************************)
(* ResourceKey normalizer and file names                                   *)
(***************************************************************************)

\* makeResourceKey with the 's' appended to every kind.
makeResourceKey_alwaysPlural(apiVersion, kind) ==
    ReplaceAll(apiVersion, "/", "-") \o <<"-">> \o ToLower(kind) \o <<"s">>

\* makeResourceKey with no 's' appended to an empty kind.
makeResourceKey_emptyKind(apiVersion, kind) ==
    LET lower    == ToLower(kind)
        resource == IF lower # <<>> /\ ~HasSuffix(lower, <<"s">>) THEN lower \o <<"s">> ELSE lower
    IN  ReplaceAll(apiVersion, "/", "-") \o <<"-">> \o resource

\* makeResourceKey(apiVersion, kind)
makeResourceKey(apiVersion, kind) ==
    LET lower    == ToLower(kind)
        resource == IF ~HasSuffix(lower, <<"s">>) THEN lower \o <<"s">> ELSE lower
    IN  ReplaceAll(apiVersion, "/", "-") \o <<"-">> \o resource

\* formatFilename(resourceName, groupVersion)
formatFilename(resourceName, groupVersion) ==
    LET sanitizedName == ReplacerReplace(resourceName)
    IN  IF groupVersion # <<>>
        THEN ReplacerReplace(groupVersion) \o <<"-">> \o sanitizedName
                 \o <<".", "y", "a", "m", "l">>
        ELSE sanitizedName \o <<".", "y", "a", "m", "l">>

(***************************************************************************)
(* Structured documents and sigs.k8s.io/yaml                               *)
(*                                                                         *)
(* A document is a Go map[string]interface{} with the keys the program     *)
(* looks at (apiVersion, kind, items) and one payload key (data).  A       *)
(* scalar entry of an items array is a node of kind "scalar".              *)
(***************************************************************************)

Absent  == [t |-> "absent", v |-> <<>>]
StrF(v) == [t |-> "str", v |-> v]
IntF(v) == [t |-> "int", v |-> v]
ItemsF(entries) == [t |-> "list", v |-> entries]

MapNode(av, k, d, it) ==
    [node |-> "map", apiVersion |-> av, kind |-> k, data |-> d, items |-> it]

ScalarNode(v) ==
    [node |-> "scalar", apiVersion |-> Absent, kind |-> Absent,
     data |-> StrF(v), items |-> Absent]

\* v, ok := m[key].(string): the string and whether the key holds one.
AsString(f) == IF f.t = "str" THEN [v |-> f.v, ok |-> TRUE] ELSE [v |-> <<>>, ok |-> FALSE]

\* yaml.Marshal writes a string in plain style only if it reads back as the
\* same string; otherwise it quotes it.
NeedsQuote(v) ==
    \/ v = <<>>
    \/ Head(v) \in { "-", "#", "'", "\"", "{", " ", ":", "*", "?", "|", ">", "<" }
    \/ v[Len(v)] = " "
    \/ Contains(v, <<":", " ">>)
    \/ Contains(v, <<" ", "#">>)
    \/ \A i \in 1..Len(v) : v[i] \in Digits

ScalarText(f) ==
    IF f.t = "int" THEN f.v
    ELSE IF f.v = <<>> THEN <<"\"", "\"">>
    ELSE IF NeedsQuote(f.v) THEN <<"'">> \o f.v \o <<"'">>
    ELSE f.v

IndentLines(lines, prefix) == [ i \in 1..Len(lines) |-> prefix \o lines[i] ]

\* A mapping entry "name: value".  A string holding a line break is written
\* as a literal block scalar ("|-"), its lines indented below the key.
FieldLines(name, f) ==
    IF f.t = "absent" THEN <<>>
    ELSE IF f.t = "str" /\ Contains(f.v, <<"\n">>)
         THEN << name \o <<":", " ", "|", "-">> >>
                  \o IndentLines(Split(f.v, <<"\n">>), <<" ", " ">>)
    ELSE << name \o <<":", " ">> \o ScalarText(f) >>

\* A sequence entry: "- " before its first line, "  " before the others.
DashBlock(lines) ==
    [ i \in 1..Len(lines) |->
        (IF i = 1 THEN <<"-", " ">> ELSE <<" ", " ">>) \o lines[i] ]

K_apiVersion == <<"a", "p", "i", "V", "e", "r", "s", "i", "o", "n">>
K_data       == <<"d", "a", "t", "a">>
K_items      == <<"i", "t", "e", "m", "s">>
K_kind       == <<"k", "i", "n", "d">>

\* The lines yaml.Marshal writes for a node; map keys in sorted order.
RECURSIVE NodeLines(_)
RECURSIVE EntriesLines(_)
EntriesLines(entries) ==
    IF entries = <<>> THEN <<>>
    ELSE DashBlock(NodeLines(Head(entries))) \o EntriesLines(Tail(entries))

NodeLines(n) ==
    IF n.node = "scalar" THEN << ScalarText(n.data) >>
    ELSE LET itemsLines ==
                 IF n.items.t = "absent" THEN <<>>
                 ELSE IF n.items.v = <<>>
                      THEN << K_items \o <<":", " ", "[", "]">> >>
                 ELSE << K_items \o <<":">> >> \o EntriesLines(n.items.v)
             lines == FieldLines(K_apiVersion, n.apiVersion)
                          \o FieldLines(K_data, n.data)
                          \o itemsLines
                          \o FieldLines(K_kind, n.kind)
         IN  IF lines = <<>> THEN << <<"{", "}">> >> ELSE lines

\* yaml.Marshal(node): every line followed by a line break.
Marshal(n) ==
    LET lines == NodeLines(n)
    IN  Concat([ i \in 1..Len(lines) |-> lines[i] \o <<"\n">> ])

(***************************************************************************)
(* Diff engine                                                             *)
(***************************************************************************)

MarkerPrefix ==
    <<"-", "-", "-", " ", "#", " ", "R", "e", "s", "o", "u", "r", "c", "e", ":">>

\* The marker line fmt.Sprintf("--- # Resource: %s\n", name)
MarkerLine(name) == MarkerPrefix \o <<" ">> \o name \o <<"\n">>

RECURSIVE ParseLines(_)
ParseLines(lines) ==
    IF lines = <<>> THEN <<>>
    ELSE LET line  == Head(lines)
             parts == SplitN2(line, <<":">>)
         IN  (IF HasPrefix(TrimSpace(line), MarkerPrefix) /\ Len(parts) = 2
              THEN << TrimSpace(parts[2]) >>
              ELSE <<>>)
             \o ParseLines(Tail(lines))

\* parseResources(content)
parseResources(content) == ParseLines(Split(content, <<"\n">>))

Range(seq) == { seq[i] : i \in 1..Len(seq) }

\* findUniqueResources with the membership test not negated.
findUniqueResources_kept(set1, set2) ==
    LET set2Map == Range(set2)
    IN  SelectSeq(set1, LAMBDA item : item \in set2Map)

\* findUniqueResources(set1, set2)
findUniqueResources(set1, set2) ==
    LET set2Map == Range(set2)
    IN  SelectSeq(set1, LAMBDA item : item \notin set2Map)

RECURSIVE CommonFrom(_, _, _)
CommonFrom(set1, set2Map, seen) ==
    IF set1 = <<>> THEN <<>>
    ELSE LET item == Head(set1)
         IN  IF item \in set2Map /\ item \notin seen
             THEN << item >> \o CommonFrom(Tail(set1), set2Map, seen \cup {item})
             ELSE CommonFrom(Tail(set1), set2Map, seen)

\* findCommonResources(set1, set2)
findCommonResources(set1, set2) == CommonFrom(set1, Range(set2), {})

(***************************************************************************)
(* Names used as inputs                                                    *)
(***************************************************************************)

V1         == <<"v", "1">>
AppsV1     == <<"a", "p", "p", "s", "/", "v", "1">>
NetV1      == <<"n", "e", "t", "/", "v", "1">>
ConfigV1   == <<"c", "f", "g", ".", "i", "o", "/", "v", "1">>
KindPod        == <<"P", "o", "d">>
KindService    == <<"S", "e", "r", "v", "i", "c", "e">>
KindConfigMap  == <<"C", "o", "n", "f", "i", "g", "M", "a", "p">>
KindDeployment == <<"D", "e", "p", "l", "o", "y", "m", "e", "n", "t">>
KindIngress    == <<"I", "n", "g", "r", "e", "s", "s">>
KindProxy      == <<"P", "r", "o", "x", "y">>
KindEndpoints  == <<"E", "n", "d", "p", "o", "i", "n", "t", "s">>
KindList       == <<"L", "i", "s", "t">>
NamePods        == <<"p", "o", "d", "s">>
NameServices    == <<"s", "e", "r", "v", "i", "c", "e", "s">>
NameConfigMaps  == <<"c", "o", "n", "f", "i", "g", "m", "a", "p", "s">>
NameDeployments == <<"d", "e", "p", "l", "o", "y", "m", "e", "n", "t", "s">>
NameIngresses   == <<"i", "n", "g", "r", "e", "s", "s", "e", "s">>
NameProxies     == <<"p", "r", "o", "x", "i", "e", "s">>
NameEndpoints   == <<"e", "n", "d", "p", "o", "i", "n", "t", "s">>

\* The variables of the parts of the program a specification does not run.
NoFunction == [ f \in {} |-> <<>> ]

IdleKey    == resType = [gv |-> <<>>, kind |-> <<>>, name |-> <<>>] /\ emitted = NoFunction
\* Nothing written by processMustGatherDirectory yet.
NoDirOutput ==
    [done |-> FALSE, err |-> "nil", files |-> NoFunction, collectedCount |-> 0, errorCount |-> 0]

IdleIngest == /\ bundle = <<>> /\ fileIdx = 0 /\ fileErrs = <<>>
              /\ resourceMap = NoFunction /\ outputs = <<>>
              /\ dirOutput = NoDirOutput

(***************************************************************************)
(* One resource type, emitted by the live and by the offline path          *)
(***************************************************************************)

\* Resource types as the discovery API serves them: group/version, kind and
\* resource name.
ResTypes ==
    { [gv |-> V1,       kind |-> KindPod,        name |-> NamePods],
      [gv |-> V1,       kind |-> KindService,    name |-> NameServices],
      [gv |-> V1,       kind |-> KindConfigMap,  name |-> NameConfigMaps],
      [gv |-> AppsV1,   kind |-> KindDeployment, name |-> NameDeployments],
      [gv |-> NetV1,    kind |-> KindIngress,    name |-> NameIngresses],
      [gv |-> ConfigV1, kind |-> KindProxy,      name |-> NameProxies],
      [gv |-> V1,       kind |-> KindEndpoints,  name |-> NameEndpoints] }

\* One object of a resource type, as the API server and a must-gather
\* document both hold it.
ObjectOf(rt) == MapNode(StrF(rt.gv), StrF(rt.kind), StrF(<<"a">>), Absent)

\* The UnstructuredList the dynamic client returns for a resource type.
ListOf(rt) ==
    MapNode(StrF(rt.gv), StrF(rt.kind \o KindList), Absent, ItemsF(<< ObjectOf(rt) >>))

\* The v1 List wrapper both renderers of must-gather mode build.
ListWrapper(items) == MapNode(StrF(V1), StrF(KindList), Absent, ItemsF(items))

\* collectResourceToBuffer: what a successful call appends to the buffer.
collectResourceToBuffer(resourceName, unstructuredList) ==
    MarkerLine(resourceName) \o Marshal(unstructuredList) \o <<"\n">>

\* One section of processMustGatherToSingleFile.
mustGatherSection(key, items) ==
    MarkerLine(key) \o Marshal(ListWrapper(items)) \o <<"\n">>

\* The file name processMustGatherDirectory writes a key to.
mustGatherFilename(key) == key \o <<".", "y", "a", "m", "l">>

Emit(form, id) ==
    /\ form \notin DOMAIN emitted
    /\ emitted' = [ f \in DOMAIN emitted \cup {form} |->
                      IF f = form THEN id ELSE emitted[f] ]
    /\ UNCHANGED <<resType, depVars, ingestVars, diffVars, liveVars, cmdVars, cmpVars, normVars>>

\* collectResource: the file a live directory-mode run writes the type to.
LiveDirectory == Emit("liveFile", formatFilename(resType.name, resType.gv))

\* collectResourceToBuffer: the section a live single-file run writes.
LiveSingleFile ==
    Emit("liveStream", collectResourceToBuffer(resType.name, ListOf(resType)))

\* processMustGatherDirectory: the file an offline run writes the type to.
OfflineDirectory ==
    Emit("offlineFile", mustGatherFilename(makeResourceKey(resType.gv, resType.kind)))

\* processMustGatherToSingleFile: the section an offline run writes.
OfflineSingleFile ==
    Emit("offlineStream",
         mustGatherSection(makeResourceKey(resType.gv, resType.kind), << ObjectOf(resType) >>))

(***************************************************************************)
(* Deprecation policy engine                                               *)
(***************************************************************************)

GVOpenShiftApps == <<"a", "p", "p", "s", ".", "o", "p", "e", "n", "s", "h", "i", "f", "t",
                     ".", "i", "o", "/", "v", "1">>
GVDiscovery     == <<"d", "i", "s", "c", "o", "v", "e", "r", "y", ".", "k", "8", "s",
                     ".", "i", "o", "/", "v", "1">>
NameComponentStatuses == <<"c", "o", "m", "p", "o", "n", "e", "n", "t",
                           "s", "t", "a", "t", "u", "s", "e", "s">>
NameDeploymentConfigs == <<"d", "e", "p", "l", "o", "y", "m", "e", "n", "t",
                           "c", "o", "n", "f", "i", "g", "s">>
NameEndpointSlices    == <<"e", "n", "d", "p", "o", "i", "n", "t", "s", "l", "i", "c", "e", "s">>

\* getDeprecationRules()
getDeprecationRules ==
    << [GroupVersion |-> V1, Resource |-> NameComponentStatuses,
        DeprecatedFrom |-> <<"1", ".", "1", "9">>,
        ReplacementGV |-> <<>>, ReplacementResource |-> <<>>, IsOpenShift |-> FALSE],
       [GroupVersion |-> V1, Resource |-> NameEndpoints,
        DeprecatedFrom |-> <<"1", ".", "3", "3">>,
        ReplacementGV |-> GVDiscovery, ReplacementResource |-> NameEndpointSlices,
        IsOpenShift |-> FALSE],
       [GroupVersion |-> GVOpenShiftApps, Resource |-> NameDeploymentConfigs,
        DeprecatedFrom |-> <<"4", ".", "1", "4">>,
        ReplacementGV |-> <<>>, ReplacementResource |-> <<>>, IsOpenShift |-> TRUE] >>

\* The ClusterVersion struct; state tells a nil pointer ("nil") and a run
\* that has not called detectClusterVersion yet ("pending") from a value.
ClusterVersionOf(st, major, minor, isOpenShift, osMajor, osMinor) ==
    [state |-> st, Major |-> major, Minor |-> minor, IsOpenShift |-> isOpenShift,
     OpenShiftMajor |-> osMajor, OpenShiftMinor |-> osMinor]

NilVersion     == ClusterVersionOf("nil", 0, 0, FALSE, 0, 0)
PendingVersion == ClusterVersionOf("pending", 0, 0, FALSE, 0, 0)

\* The text detectClusterVersion looks for in the API group names.
OpenShiftSuffix == <<"o", "p", "e", "n", "s", "h", "i", "f", "t", ".", "i", "o">>

\* detectClusterVersion with the OpenShift estimate starting above
\* Kubernetes 1.27.
detectClusterVersion_above27(srv) ==
    LET major == Atoi(TrimSuffix(srv.Major, <<"+">>))
        minor == Atoi(TrimSuffix(srv.Minor, <<"+">>))
        isOpenShift == /\ srv.groupsOk
                       /\ \E i \in 1..Len(srv.groups) : Contains(srv.groups[i], OpenShiftSuffix)
    IN  IF ~srv.versionOk \/ ~major.ok \/ ~minor.ok THEN NilVersion
        ELSE ClusterVersionOf("set", major.n, minor.n, isOpenShift,
                 IF isOpenShift THEN 4 ELSE 0,
                 IF isOpenShift /\ minor.n > 27 THEN 14 + (minor.n - 27) ELSE 0)

\* detectClusterVersion(discovery): srv is what the discovery client
\* answers: ServerVersion() (versionOk, Major, Minor) and ServerGroups()
\* (groupsOk, the names of the served API groups).
detectClusterVersion(srv) ==
    LET major == Atoi(TrimSuffix(srv.Major, <<"+">>))
        minor == Atoi(TrimSuffix(srv.Minor, <<"+">>))
        isOpenShift == /\ srv.groupsOk
                       /\ \E i \in 1..Len(srv.groups) : Contains(srv.groups[i], OpenShiftSuffix)
    IN  IF ~srv.versionOk \/ ~major.ok \/ ~minor.ok THEN NilVersion
        ELSE ClusterVersionOf("set", major.n, minor.n, isOpenShift,
                 IF isOpenShift THEN 4 ELSE 0,
                 IF isOpenShift /\ minor.n >= 27 THEN 14 + (minor.n - 27) ELSE 0)

\* The version comparison within the major version of the rule only.
VersionReached_sameMajor(major, minor, depMajor, depMinor) ==
    major = depMajor /\ minor >= depMinor

\* The version comparison with a strict test on the minor version.
VersionReached_strict(major, minor, depMajor, depMinor) ==
    major > depMajor \/ (major = depMajor /\ minor > depMinor)

\* The version comparison of isDeprecated.
VersionReached(major, minor, depMajor, depMinor) ==
    major > depMajor \/ (major = depMajor /\ minor >= depMinor)

NoVerdict == [asked |-> FALSE, deprecated |-> FALSE, replacementGV |-> <<>>,
              replacementResource |-> <<>>, msg |-> ""]

VerdictOf(dep, gv, res, msg) ==
    [asked |-> TRUE, deprecated |-> dep, replacementGV |-> gv,
     replacementResource |-> res, msg |-> msg]

\* isDeprecated(resource, groupVersion, clusterVersion): the loop over the
\* rules, from the given rule on.
RECURSIVE isDeprecatedFrom(_, _, _, _)
isDeprecatedFrom(rules, resourceName, groupVersion, cv) ==
    IF rules = <<>> THEN VerdictOf(FALSE, <<>>, <<>>, "")
    ELSE
      LET rule     == Head(rules)
          parts    == Split(rule.DeprecatedFrom, <<".">>)
          depMajor == Atoi(parts[1])
          depMinor == Atoi(parts[2])
          next     == isDeprecatedFrom(Tail(rules), resourceName, groupVersion, cv)
      IN  IF rule.GroupVersion # groupVersion \/ rule.Resource # resourceName THEN next
          ELSE IF rule.IsOpenShift /\ ~cv.IsOpenShift THEN next
          ELSE IF Len(parts) < 2 THEN next
          ELSE IF ~depMajor.ok \/ ~depMinor.ok THEN next
          ELSE IF (IF rule.IsOpenShift
                   THEN VersionReached(cv.OpenShiftMajor, cv.OpenShiftMinor, depMajor.n, depMinor.n)
                   ELSE VersionReached(cv.Major, cv.Minor, depMajor.n, depMinor.n))
               THEN VerdictOf(TRUE, rule.ReplacementGV, rule.ReplacementResource,
                      IF rule.ReplacementGV # <<>> /\ rule.ReplacementResource # <<>>
                      THEN "Using " \o Str(rule.ReplacementGV) \o "/"
                             \o Str(rule.ReplacementResource) \o " instead of deprecated "
                             \o Str(groupVersion) \o "/" \o Str(resourceName)
                      ELSE "Skipping deprecated " \o Str(groupVersion) \o "/"
                             \o Str(resourceName) \o " (no replacement available)")
          ELSE next

isDeprecated(resourceName, groupVersion, cv) ==
    isDeprecatedFrom(getDeprecationRules, resourceName, groupVersion, cv)

\* What the discovery client may answer.
ServerVersions ==
    { << <<"1">>, <<"1", "8">> >>, << <<"1">>, <<"1", "9">> >>,
      << <<"1">>, <<"2", "6">> >>, << <<"1">>, <<"2", "7">> >>,
      << <<"1">>, <<"3", "0">> >>, << <<"1">>, <<"3", "2">> >>,
      << <<"1">>, <<"3", "3">> >>, << <<"1">>, <<"3", "4", "+">> >>,
      << <<"2">>, <<"0">> >>,      << <<"1">>, <<"x">> >> }

\* API group names a cluster serves.
GroupApps            == <<"a", "p", "p", "s">>
GroupOpenShift       == <<"o", "p", "e", "n", "s", "h", "i", "f", "t">>
GroupConfigOpenShift == <<"c", "o", "n", "f", "i", "g", ".">> \o OpenShiftSuffix

\* What ServerGroups() may list: a plain cluster, an OpenShift cluster, a
\* cluster with a group named "openshift".
GroupLists ==
    { << GroupApps >>, << GroupApps, GroupConfigOpenShift >>, << GroupOpenShift, GroupApps >> }

Servers ==
    { [versionOk |-> ok, Major |-> v[1], Minor |-> v[2], groupsOk |-> g, groups |-> gs] :
        ok \in BOOLEAN, v \in ServerVersions, g \in BOOLEAN, gs \in GroupLists }

\* The (groupVersion, resource name) pairs the engine is asked about.
Queries ==
    { [gv |-> V1, name |-> NameComponentStatuses],
      [gv |-> V1, name |-> NameEndpoints],
      [gv |-> GVOpenShiftApps, name |-> NameDeploymentConfigs],
      [gv |-> V1, name |-> NamePods],
      [gv |-> AppsV1, name |-> NameEndpoints],
      [gv |-> V1, name |-> NameDeploymentConfigs] }

NoQuery == [gv |-> <<>>, name |-> <<>>]

IdleDep == /\ server = [versionOk |-> FALSE, Major |-> <<>>, Minor |-> <<>>,
                        groupsOk |-> FALSE, groups |-> <<>>]
           /\ clusterVersion = PendingVersion
           /\ query = NoQuery
           /\ verdict = NoVerdict

\* detectClusterVersion, as collectResources and
\* collectAllResourcesToSingleFile call it first.
DetectClusterVersion ==
    /\ clusterVersion.state = "pending"
    /\ clusterVersion' = detectClusterVersion(server)
    /\ UNCHANGED <<server, query, verdict, keyVars, ingestVars, diffVars, liveVars, cmdVars, cmpVars, normVars>>

\* shouldSkipResource -> isDeprecated for one discovered resource; the
\* callers consult it only if clusterVersion != nil.
IsDeprecated ==
    /\ clusterVersion.state = "set"
    /\ \E q \in Queries :
         /\ query' = q
         /\ verdict' = isDeprecated(q.name, q.gv, clusterVersion)
    /\ UNCHANGED <<server, clusterVersion, keyVars, ingestVars, diffVars, liveVars, cmdVars, cmpVars, normVars>>

(***************************************************************************)
(* Must-gather ingestion                                                   *)
(***************************************************************************)

\* Documents of the must-gather files.
PodA    == MapNode(StrF(V1), StrF(KindPod), StrF(<<"a">>), Absent)
PodB    == MapNode(StrF(V1), StrF(KindPod), StrF(<<"b">>), Absent)
Svc     == MapNode(StrF(V1), StrF(KindService), StrF(<<"a">>), Absent)
\* a Pod whose data is a two-line string holding a marker-like line
PodM    == MapNode(StrF(V1), StrF(KindPod),
                   StrF(<<"x", "\n">> \o MarkerPrefix \o <<" ", "f">>), Absent)
NoKind  == MapNode(StrF(V1), Absent, StrF(<<"a">>), Absent)
EmptyAV == MapNode(StrF(<<>>), StrF(KindPod), StrF(<<"a">>), Absent)
IntKind == MapNode(StrF(V1), IntF(<<"7">>), StrF(<<"a">>), Absent)
ListPods   == ListWrapper(<< PodA, PodB >>)
ListInner  == ListWrapper(<< PodA >>)
ListMixed  == ListWrapper(<< Svc, IntKind, EmptyAV, ScalarNode(<<"z">>), ListInner >>)
EmptyMap   == MapNode(Absent, Absent, Absent, Absent)

\* A candidate document of a file: a YAML mapping, optionally preceded by a
\* comment line; or an empty, comment-only or malformed document.
YamlDoc(comment, n) == [form |-> "yaml", comment |-> comment, node |-> n]
EmptyDoc       == [form |-> "empty", comment |-> FALSE, node |-> EmptyMap]
CommentOnlyDoc == [form |-> "commentOnly", comment |-> TRUE, node |-> EmptyMap]
InvalidDoc     == [form |-> "invalid", comment |-> FALSE, node |-> EmptyMap]

DocPool ==
    { YamlDoc(FALSE, PodA), YamlDoc(FALSE, Svc), YamlDoc(FALSE, ListPods),
      YamlDoc(FALSE, ListMixed), YamlDoc(TRUE, PodB), YamlDoc(FALSE, NoKind),
      YamlDoc(FALSE, PodM), EmptyDoc, CommentOnlyDoc, InvalidDoc }

CommentLine == <<"#", " ", "c", "\n">>

\* The bytes of one document.
DocText(d) ==
    CASE d.form = "empty"       -> <<>>
      [] d.form = "commentOnly" -> CommentLine
      [] d.form = "invalid"     -> <<"{", "\n">>
      [] d.form = "yaml"        ->
            (IF d.comment THEN CommentLine ELSE <<>>) \o Marshal(d.node)

\* The bytes of a file: its documents, a "---" line between them.
RECURSIVE FileText(_)
FileText(docs) ==
    IF docs = <<>> THEN <<>>
    ELSE IF Len(docs) = 1 THEN DocText(docs[1])
    ELSE DocText(docs[1]) \o <<"-", "-", "-", "\n">> \o FileText(Tail(docs))

\* The mappings yaml.Unmarshal can return in the model.
RECURSIVE NodesIn(_)
NodesIn(n) ==
    {n} \cup (IF n.items.t = "list"
              THEN UNION { NodesIn(n.items.v[i]) : i \in 1..Len(n.items.v) }
              ELSE {})

\* The sequences left when entries of a sequence are deleted.
RECURSIVE SubSequences(_)
SubSequences(seq) ==
    IF seq = <<>> THEN { <<>> }
    ELSE LET rest == SubSequences(Tail(seq))
         IN  rest \cup { << Head(seq) >> \o x : x \in rest }

\* A List document with some of its entries deleted is a document too.
ListVariants(n) ==
    IF n.items.t = "list"
    THEN { [n EXCEPT !.items = ItemsF(sub)] : sub \in SubSequences(n.items.v) }
    ELSE { n }

YamlUniverse ==
    UNION { UNION { NodesIn(v) : v \in ListVariants(d.node) } :
              d \in { x \in DocPool : x.form = "yaml" } }

\* The text of each of them, as yaml.Marshal writes it.
YamlTexts == [ n \in YamlUniverse |-> TrimSpace(Marshal(n)) ]

RECURSIVE JoinLines(_)
JoinLines(lines) ==
    IF lines = <<>> THEN <<>>
    ELSE IF Len(lines) = 1 THEN lines[1]
    ELSE lines[1] \o <<"\n">> \o JoinLines(Tail(lines))

\* yaml.Unmarshal([]byte(doc), &resource): comment lines and a leading
\* document-start line are not content; what remains is the text of at most
\* one mapping (an empty text gives a nil map), anything else is an error.
Unmarshal(doc) ==
    LET lines   == SelectSeq(Split(doc, <<"\n">>), LAMBDA l : ~HasPrefix(l, <<"#">>))
        body    == IF lines # <<>> /\ lines[1] = <<"-", "-", "-">> THEN Tail(lines) ELSE lines
        text    == TrimSpace(JoinLines(body))
        matches == { n \in YamlUniverse : n.node = "map" /\ YamlTexts[n] = text }
    IN  IF text = <<>> THEN [ok |-> TRUE, resource |-> EmptyMap]
        ELSE IF matches # {} THEN [ok |-> TRUE, resource |-> CHOOSE n \in matches : TRUE]
        ELSE [ok |-> FALSE, resource |-> EmptyMap]

\* resourceMap[key] = append(resourceMap[key], item)
MapAppend(rm, key, item) ==
    [ k \in DOMAIN rm \cup {key} |->
        IF k = key
        THEN (IF key \in DOMAIN rm THEN Append(rm[key], item) ELSE << item >>)
        ELSE rm[k] ]

\* The loop over the items of a List document, leaving the loop at the
\* first entry without apiVersion or kind.
RECURSIVE processListItems_break(_, _)
processListItems_break(items, rm) ==
    IF items = <<>> THEN rm
    ELSE LET item           == Head(items)
             itemApiVersion == AsString(item.apiVersion).v
             itemKind       == AsString(item.kind).v
         IN  IF item.node # "map" THEN processListItems_break(Tail(items), rm)
             ELSE IF itemApiVersion # <<>> /\ itemKind # <<>>
                  THEN processListItems_break(Tail(items),
                           MapAppend(rm, makeResourceKey(itemApiVersion, itemKind), item))
             ELSE rm

\* The loop over the items of a List document.
RECURSIVE processListItems(_, _)
processListItems(items, rm) ==
    IF items = <<>> THEN rm
    ELSE LET item           == Head(items)
             itemApiVersion == AsString(item.apiVersion).v
             itemKind       == AsString(item.kind).v
         IN  IF item.node # "map" THEN processListItems(Tail(items), rm)
             ELSE IF itemApiVersion # <<>> /\ itemKind # <<>>
                  THEN processListItems(Tail(items),
                           MapAppend(rm, makeResourceKey(itemApiVersion, itemKind), item))
             ELSE processListItems(Tail(items), rm)

\* The loop over the candidate documents of a file.
RECURSIVE processDocs(_, _)
processDocs(docs, rm) ==
    IF docs = <<>> THEN rm
    ELSE LET doc        == TrimSpace(Head(docs))
             parsed     == Unmarshal(doc)
             resource   == parsed.resource
             apiVersion == AsString(resource.apiVersion)
             kind       == AsString(resource.kind)
             rest       == Tail(docs)
         IN  IF doc = <<>> \/ HasPrefix(doc, <<"#">>) THEN processDocs(rest, rm)
             ELSE IF ~parsed.ok THEN processDocs(rest, rm)
             ELSE IF ~apiVersion.ok \/ apiVersion.v = <<>> THEN processDocs(rest, rm)
             ELSE IF ~kind.ok \/ kind.v = <<>> THEN processDocs(rest, rm)
             ELSE IF kind.v = KindList
                  THEN processDocs(rest,
                           IF resource.items.t = "list"
                           THEN processListItems(resource.items.v, rm)
                           ELSE rm)
             ELSE processDocs(rest,
                      MapAppend(rm, makeResourceKey(apiVersion.v, kind.v), resource))

\* processMustGatherFile returning an error for a file that holds a
\* document that does not parse.
processMustGatherFile_reportsDropped(file, rm) ==
    IF ~file.readable THEN [err |-> "failed to read file", resourceMap |-> rm]
    ELSE [err |-> IF \E i \in 1..Len(file.docs) : file.docs[i].form = "invalid"
                  THEN "failed to parse document" ELSE "nil",
          resourceMap |-> processDocs(Split(FileText(file.docs), <<"\n", "-", "-", "-">>), rm)]

\* processMustGatherFile(filePath, resourceMap): the returned error and the
\* map after the call.
processMustGatherFile(file, rm) ==
    IF ~file.readable THEN [err |-> "failed to read file", resourceMap |-> rm]
    ELSE [err |-> "nil",
          resourceMap |-> processDocs(Split(FileText(file.docs), <<"\n", "-", "-", "-">>), rm)]

\* Bounds of the must-gather runs.
MaxDocs == 2      \* documents (and unreadable files) in a bundle
MaxRuns == 2      \* renderings of the same bundle

Files ==
    { [readable |-> TRUE, docs |-> ds] :
        ds \in UNION { [1..k -> DocPool] : k \in 1..MaxDocs } }
    \cup { [readable |-> FALSE, docs |-> <<>>] }

Weight(f) == IF f.readable THEN Len(f.docs) ELSE 1

\* The bundles of at most n documents: sequences of files in walk order.
RECURSIVE BundlesOf(_)
BundlesOf(n) ==
    { <<>> } \cup
    UNION { { << f >> \o b : b \in BundlesOf(n - Weight(f)) } :
              f \in { g \in Files : Weight(g) <= n } }

\* What the callback handed to filepath.Walk returns when
\* processMustGatherFile returned err: nil, so that the walk goes on.
walkFunc(err) == "nil"

\* What filepath.Walk has returned so far: the first error a callback
\* returned ends the walk.
RECURSIVE walkReturn(_)
walkReturn(errs) ==
    IF errs = <<>> THEN "nil"
    ELSE IF walkFunc(Head(errs)) # "nil" THEN walkFunc(Head(errs))
    ELSE walkReturn(Tail(errs))

\* filepath.Walk visits the next YAML file: processMustGatherFile.  The
\* walk callback of processMustGatherToSingleFile drops the returned error.
ProcessFile ==
    /\ fileIdx < Len(bundle)
    /\ walkReturn(fileErrs) = "nil"
    /\ LET r == processMustGatherFile(bundle[fileIdx + 1], resourceMap)
       IN  /\ resourceMap' = r.resourceMap
           /\ fileErrs' = Append(fileErrs, r.err)
    /\ fileIdx' = fileIdx + 1
    /\ UNCHANGED <<bundle, outputs, dirOutput, keyVars, depVars, diffVars, liveVars, cmdVars, cmpVars, normVars>>

Perms(S) ==
    { p \in [1..Cardinality(S) -> S] : \A i, j \in 1..Cardinality(S) : p[i] = p[j] => i = j }

\* The stream processMustGatherToSingleFile builds when the loop over
\* `keys` runs in the given order.
RECURSIVE renderSections(_, _)
renderSections(keys, rm) ==
    IF keys = <<>> THEN <<>>
    ELSE LET key   == Head(keys)
             items == rm[key]
         IN  (IF Len(items) = 0 THEN <<>> ELSE mustGatherSection(key, items))
             \o renderSections(Tail(keys), rm)

\* The second half of processMustGatherToSingleFile, after the walk: `keys`
\* is filled by ranging over the map and is not sorted, so the sections are
\* written in whatever order Go's map iteration yields.  A second run over
\* the same bundle builds the same map and renders it again.
RenderSingleFile ==
    /\ fileIdx = Len(bundle)
    /\ Len(outputs) < MaxRuns
    /\ \E keys \in Perms(DOMAIN resourceMap) :
         outputs' = Append(outputs, [keys |-> keys, text |-> renderSections(keys, resourceMap)])
    /\ UNCHANGED <<bundle, fileIdx, fileErrs, resourceMap, dirOutput, keyVars, depVars, diffVars, liveVars, cmdVars, cmpVars, normVars>>

\* formatHeader(resourceName, groupVersion): the lines of the comment
\* block, each a fixed text followed by its argument.  The time of the
\* second line is not modelled.
formatHeader(resourceName, groupVersion) ==
    << [text |-> "# Generated by k8s-resource-collector", arg |-> <<>>],
       [text |-> "# Generated at: ", arg |-> <<>>],
       [text |-> "# Resource: ", arg |-> resourceName] >>
    \o (IF groupVersion # <<>>
        THEN << [text |-> "# Group Version: ", arg |-> groupVersion] >>
        ELSE <<>>)
    \o << [text |-> "# ---", arg |-> <<>>] >>

\* The header processMustGatherDirectory builds for a key: the key is split
\* at its first '-'.
headerOfKey(key) ==
    LET parts        == SplitN2(key, <<"-">>)
        groupVersion == parts[1]
        resourceName == IF Len(parts) > 1 THEN parts[2] ELSE <<>>
    IN  [groupVersion |-> groupVersion, resourceName |-> resourceName,
         header |-> formatHeader(resourceName, groupVersion)]

\* The loop of processMustGatherDirectory over the map, the keys taken in
\* the given order; os.WriteFile fails for the keys in `failing`.
\* yaml.Marshal does not fail on the maps yaml.Unmarshal produced.
RECURSIVE writeDirectory(_, _, _, _)
writeDirectory(keys, rm, failing, out) ==
    IF keys = <<>> THEN out
    ELSE LET key   == Head(keys)
             items == rm[key]
             h     == headerOfKey(key)
             file  == [header |-> h.header, yaml |-> Marshal(ListWrapper(items))]
             name  == mustGatherFilename(key)
         IN  IF Len(items) = 0 THEN writeDirectory(Tail(keys), rm, failing, out)
             ELSE IF key \in failing
                  THEN writeDirectory(Tail(keys), rm, failing,
                           [out EXCEPT !.errorCount = @ + 1])
             ELSE writeDirectory(Tail(keys), rm, failing,
                      [out EXCEPT !.collectedCount = @ + 1,
                                  !.files = [ n \in DOMAIN @ \cup {name} |->
                                                IF n = name THEN file ELSE @[n] ]])

\* The errorCount of processMustGatherDirectory when the walk ends: the
\* callback adds one for every call of processMustGatherFile that returned
\* an error.
RECURSIVE walkErrorCount(_)
walkErrorCount(errs) ==
    IF errs = <<>> THEN 0
    ELSE (IF Head(errs) # "nil" THEN 1 ELSE 0) + walkErrorCount(Tail(errs))

\* The second half of processMustGatherDirectory, after the walk, and the
\* summary runMustGatherMode prints from the two counts it returns.
WriteDirectory ==
    /\ fileIdx = Len(bundle) \/ walkReturn(fileErrs) # "nil"
    /\ ~dirOutput.done
    /\ IF walkReturn(fileErrs) # "nil"
       THEN dirOutput' = [NoDirOutput EXCEPT !.done = TRUE,
                                            !.err = "failed to walk must-gather directory"]
       ELSE \E keys \in Perms(DOMAIN resourceMap), failing \in SUBSET (DOMAIN resourceMap) :
              dirOutput' = writeDirectory(keys, resourceMap, failing,
                               [NoDirOutput EXCEPT !.done = TRUE,
                                                   !.errorCount = walkErrorCount(fileErrs)])
    /\ UNCHANGED <<bundle, fileIdx, fileErrs, resourceMap, outputs, keyVars, depVars, diffVars, liveVars, cmdVars, cmpVars, normVars>>

(***************************************************************************)
(* generateDiff                                                            *)
(***************************************************************************)

NoDiff == [done |-> FALSE, resources1 |-> <<>>, resources2 |-> <<>>,
           onlyInCluster1 |-> <<>>, onlyInCluster2 |-> <<>>,
           commonResources |-> <<>>, report |-> <<>>]

IdleDiff == content1 = <<>> /\ content2 = <<>> /\ diff = NoDiff

\* The report lines of generateDiff, without the timestamp line.
diffReport(cluster1Name, cluster2Name, r1, r2, only1, only2, common) ==
    << "=== Cluster Comparison Report ===",
       "Cluster 1: " \o cluster1Name \o " (" \o ToString(Len(r1)) \o " resources)",
       "Cluster 2: " \o cluster2Name \o " (" \o ToString(Len(r2)) \o " resources)",
       "" >>
    \o (IF Len(only1) > 0
        THEN << "", "=== Resources only in " \o cluster1Name \o " ===" >>
                 \o [ i \in 1..Len(only1) |-> "- " \o Str(only1[i]) ]
        ELSE <<>>)
    \o (IF Len(only2) > 0
        THEN << "", "=== Resources only in " \o cluster2Name \o " ===" >>
                 \o [ i \in 1..Len(only2) |-> "- " \o Str(only2[i]) ]
        ELSE <<>>)
    \o (IF Len(common) > 0
        THEN << "", "=== Common resources in both clusters ===",
                "Total: " \o ToString(Len(common)) \o " resources" >>
        ELSE <<>>)
    \o << "", "=== Summary ===",
          "Total resources in " \o cluster1Name \o ": " \o ToString(Len(r1)),
          "Total resources in " \o cluster2Name \o ": " \o ToString(Len(r2)),
          "Only in " \o cluster1Name \o ": " \o ToString(Len(only1)),
          "Only in " \o cluster2Name \o ": " \o ToString(Len(only2)),
          "Common to both: " \o ToString(Len(common)) >>

\* generateDiff(file1, file2, outputFile, cluster1Name, cluster2Name), the
\* two files holding c1 and c2.
generateDiff(c1, c2, cluster1Name, cluster2Name) ==
    LET resources1 == parseResources(c1)
        resources2 == parseResources(c2)
        only1      == findUniqueResources(resources1, resources2)
        only2      == findUniqueResources(resources2, resources1)
        common     == findCommonResources(resources1, resources2)
    IN  [done |-> TRUE, resources1 |-> resources1, resources2 |-> resources2,
         onlyInCluster1 |-> only1, onlyInCluster2 |-> only2, commonResources |-> common,
         report |-> diffReport(cluster1Name, cluster2Name, resources1, resources2,
                               only1, only2, common)]

\* Bound of the captures that are compared.
MaxNames == 2     \* resource types served by a cluster

DiscoveryNames == { NamePods, NameServices, NameConfigMaps }

\* The stream collectAllResourcesToSingleFile writes for a cluster that
\* serves the given resource names, in discovery order.  Two API groups may
\* serve a resource of the same name.
RECURSIVE liveStream(_)
liveStream(names) ==
    IF names = <<>> THEN <<>>
    ELSE collectResourceToBuffer(Head(names), ListWrapper(<<>>)) \o liveStream(Tail(names))

LiveStreams ==
    { liveStream(names) : names \in UNION { [1..k -> DiscoveryNames] : k \in 0..MaxNames } }

GenerateDiff ==
    /\ ~diff.done
    /\ diff' = generateDiff(content1, content2, "cluster1", "cluster2")
    /\ UNCHANGED <<content1, content2, keyVars, depVars, ingestVars, liveVars, cmdVars, cmpVars, normVars>>

(***************************************************************************)
(* Live collection: collectResources, collectAllResourcesToSingleFile      *)
(***************************************************************************)

\* contains(slice, item)
contains(slice, item) == \E i \in 1..Len(slice) : slice[i] = item

\* shouldSkipResource(resource, groupVersion, clusterVersion)
shouldSkipResource(resourceName, groupVersion, cv) ==
    LET v == isDeprecated(resourceName, groupVersion, cv)
    IN  IF v.deprecated THEN [skip |-> TRUE, msg |-> v.msg]
        ELSE [skip |-> FALSE, msg |-> ""]

\* The filters with the deprecation check made first.
classify_deprecationFirst(r, cv) ==
    IF cv.state # "nil" /\ shouldSkipResource(r.name, r.gv, cv).skip
    THEN [decision |-> "deprecated", consulted |-> TRUE]
    ELSE IF Contains(r.name, <<"/">>)
    THEN [decision |-> "subresource", consulted |-> cv.state # "nil"]
    ELSE IF ~contains(r.verbs, "list") \/ ~contains(r.verbs, "get")
    THEN [decision |-> "verbs", consulted |-> cv.state # "nil"]
    ELSE [decision |-> "fetch", consulted |-> cv.state # "nil"]

\* The filters with the deprecation check made also without a version.
classify_alwaysConsult(r, cv) ==
    IF Contains(r.name, <<"/">>)
    THEN [decision |-> "subresource", consulted |-> FALSE]
    ELSE IF ~contains(r.verbs, "list") \/ ~contains(r.verbs, "get")
    THEN [decision |-> "verbs", consulted |-> FALSE]
    ELSE IF shouldSkipResource(r.name, r.gv, cv).skip
    THEN [decision |-> "deprecated", consulted |-> TRUE]
    ELSE [decision |-> "fetch", consulted |-> TRUE]

\* The filters of the collection loop for one discovered resource, in the
\* order of the code; consulted tells whether shouldSkipResource was called.
classify(r, cv) ==
    IF Contains(r.name, <<"/">>)
    THEN [decision |-> "subresource", consulted |-> FALSE]
    ELSE IF ~contains(r.verbs, "list") \/ ~contains(r.verbs, "get")
    THEN [decision |-> "verbs", consulted |-> FALSE]
    ELSE IF cv.state # "nil"
    THEN (IF shouldSkipResource(r.name, r.gv, cv).skip
          THEN [decision |-> "deprecated", consulted |-> TRUE]
          ELSE [decision |-> "fetch", consulted |-> TRUE])
    ELSE [decision |-> "fetch", consulted |-> FALSE]

\* The fetch result handled by returning the error.
afterFetch_abort(cnt, ok) ==
    IF ok THEN [counts |-> [cnt EXCEPT !.collected = @ + 1], abort |-> FALSE]
    ELSE [counts |-> [cnt EXCEPT !.errors = @ + 1], abort |-> TRUE]

\* The fetch result handled without counting a failure.
afterFetch_uncounted(cnt, ok) ==
    IF ok THEN [counts |-> [cnt EXCEPT !.collected = @ + 1], abort |-> FALSE]
    ELSE [counts |-> cnt, abort |-> FALSE]

\* What the loop does with the result of collectResource or
\* collectResourceToBuffer: count it; neither branch leaves the loop.
afterFetch(cnt, ok) ==
    IF ok THEN [counts |-> [cnt EXCEPT !.collected = @ + 1], abort |-> FALSE]
    ELSE [counts |-> [cnt EXCEPT !.errors = @ + 1], abort |-> FALSE]

\* The UnstructuredList the dynamic client answers for a discovered
\* resource: a list of its group/version without items.
listAnswer(r) == MapNode(StrF(r.gv), StrF(KindList), Absent, ItemsF(<<>>))

\* collectResourceToBuffer with the marker written before the List call.
writeToBuffer_markerFirst(buf, r) ==
    IF r.fetchOk THEN buf \o collectResourceToBuffer(r.name, listAnswer(r))
    ELSE buf \o MarkerLine(r.name)

\* collectResourceToBuffer(dynamic, resource, groupVersion, buffer): the
\* buffer after the call.  The List call and yaml.Marshal come before the
\* first write, so a call that returns an error has written nothing.
writeToBuffer(buf, r) ==
    IF r.fetchOk THEN buf \o collectResourceToBuffer(r.name, listAnswer(r))
    ELSE buf

NamePodsStatus == NamePods \o <<"/", "s", "t", "a", "t", "u", "s">>

\* Resources as discovery.ServerPreferredResources() serves them, with
\* what the dynamic client's List will answer (fetchOk FALSE: an error or
\* the 30 s timeout).
Discovered ==
    { [gv |-> V1, name |-> NamePods, verbs |-> <<"get", "list", "watch">>, fetchOk |-> TRUE],
      [gv |-> AppsV1, name |-> NameDeployments, verbs |-> <<"list", "get">>, fetchOk |-> FALSE],
      [gv |-> V1, name |-> NamePodsStatus, verbs |-> <<"get", "list">>, fetchOk |-> TRUE],
      [gv |-> V1, name |-> NameEndpoints, verbs |-> <<"get", "list">>, fetchOk |-> TRUE],
      [gv |-> V1, name |-> NameEndpoints, verbs |-> <<"get", "watch">>, fetchOk |-> TRUE],
      [gv |-> V1, name |-> NameComponentStatuses, verbs |-> <<"list">>, fetchOk |-> FALSE],
      [gv |-> GVDiscovery, name |-> NameEndpointSlices, verbs |-> <<"get", "list">>,
       fetchOk |-> FALSE] }

MaxResources == 2

RECURSIVE ResourceLists(_)
ResourceLists(n) ==
    IF n = 0 THEN { <<>> }
    ELSE LET shorter == ResourceLists(n - 1)
         IN  shorter \cup { Append(l, r) : l \in { x \in shorter : Len(x) = n - 1 },
                                            r \in Discovered }

\* The clusters of a live run: ServerVersion() fails, answers a minor
\* version Atoi rejects, answers 1.32, answers 1.33.
LiveServers ==
    { srv \in Servers :
        /\ ~srv.groupsOk /\ srv.groups = << GroupApps >>
        /\ \/ ~srv.versionOk /\ srv.Minor = <<"3", "3">>
           \/ srv.versionOk /\ srv.Minor \in { <<"x">>, <<"3", "2">>, <<"3", "3">> } }

LiveEnvs ==
    { [resources |-> l, discoveryOk |-> d, singleFile |-> w[1], writeOk |-> w[2]] :
        l \in ResourceLists(MaxResources), d \in BOOLEAN,
        w \in { <<FALSE, TRUE>>, <<TRUE, TRUE>>, <<TRUE, FALSE>> } }

NoCounts == [collected |-> 0, errors |-> 0, skipped |-> 0]

IdleLive == /\ liveEnv = [resources |-> <<>>, discoveryOk |-> FALSE,
                          singleFile |-> FALSE, writeOk |-> FALSE]
            /\ livePc = "idle" /\ resIdx = 0 /\ counts = NoCounts
            /\ calls = <<>> /\ liveErr = "pending" /\ buffer = <<>>

\* clusterVersion, err := detectClusterVersion(discovery); on an error the
\* run continues with clusterVersion = nil.
LiveDetect ==
    /\ livePc = "detect"
    /\ clusterVersion' = detectClusterVersion(server)
    /\ livePc' = "discover"
    /\ UNCHANGED <<liveEnv, resIdx, counts, calls, liveErr, buffer, server, query, verdict,
                   keyVars, ingestVars, diffVars, cmdVars, cmpVars, normVars>>

\* resources, err := discovery.ServerPreferredResources()
LiveDiscover ==
    /\ livePc = "discover"
    /\ IF liveEnv.discoveryOk
       THEN livePc' = "loop" /\ UNCHANGED liveErr
       ELSE livePc' = "done" /\ liveErr' = "failed to discover API resources"
    /\ UNCHANGED <<liveEnv, resIdx, counts, calls, buffer,
                   keyVars, depVars, ingestVars, diffVars, cmdVars, cmpVars, normVars>>

\* One iteration of the loop over the discovered resources.
LiveCollectNext ==
    /\ livePc = "loop" /\ resIdx < Len(liveEnv.resources)
    /\ LET idx == resIdx + 1
           r   == liveEnv.resources[idx]
           c   == classify(r, clusterVersion)
           consult == IF c.consulted
                      THEN << [op |-> "shouldSkipResource", idx |-> idx] >> ELSE <<>>
           res == afterFetch(counts, r.fetchOk)
       IN  /\ resIdx' = idx
           /\ IF c.decision = "fetch"
              THEN /\ calls' = calls \o consult \o << [op |-> "List", idx |-> idx] >>
                   /\ counts' = res.counts
                   /\ buffer' = IF liveEnv.singleFile THEN writeToBuffer(buffer, r)
                                ELSE buffer
                   /\ IF res.abort
                      THEN livePc' = "done" /\ liveErr' = "failed to collect"
                      ELSE UNCHANGED <<livePc, liveErr>>
              ELSE /\ calls' = calls \o consult
                   /\ counts' = IF c.decision = "deprecated"
                                THEN [counts EXCEPT !.skipped = @ + 1] ELSE counts
                   /\ UNCHANGED <<livePc, liveErr, buffer>>
    /\ UNCHANGED <<liveEnv, keyVars, depVars, ingestVars, diffVars, cmdVars, cmpVars, normVars>>

\* After the loop: collectAllResourcesToSingleFile writes the file and
\* returns its error; collectResources returns nil.
LiveFinish ==
    /\ livePc = "loop" /\ resIdx = Len(liveEnv.resources)
    /\ livePc' = "done"
    /\ liveErr' = IF liveEnv.singleFile /\ ~liveEnv.writeOk
                  THEN "failed to write file" ELSE "nil"
    /\ UNCHANGED <<liveEnv, resIdx, counts, calls, buffer,
                   keyVars, depVars, ingestVars, diffVars, cmdVars, cmpVars, normVars>>

(***************************************************************************)
(* Command line: runCollector and the modes it starts                      *)
(***************************************************************************)

\* A path flag holds "" when it is not given; otherwise the value tells
\* what the file system holds at the path.
KubeconfigPaths == { "", "missing", "ok" }
MustGatherPaths == { "", "missing", "file", "unreadable", "emptydir", "ok" }

Outcome(mode, err, effects) == [mode |-> mode, err |-> err, effects |-> effects]

\* validateMustGatherPath(path): the error it returns, or "nil".
validateMustGatherPath(path) ==
    IF path = "" THEN "must-gather path cannot be empty"
    ELSE IF path = "missing" THEN "must-gather directory not found"
    ELSE IF path = "file" THEN "must-gather path is not a directory"
    ELSE IF path = "unreadable" THEN "cannot read must-gather directory"
    ELSE IF path = "emptydir" THEN "must-gather directory is empty"
    ELSE "nil"

\* parseKubeConfig(kubeconfigPath): flag, else $KUBECONFIG or ~/.kube/config
\* (f.defaultKubeconfig); the file must exist.
parseKubeConfig(kubeconfigPath, f) ==
    LET configPath == IF kubeconfigPath # "" THEN kubeconfigPath ELSE f.defaultKubeconfig
    IN  IF configPath = "missing" THEN "kubeconfig file not found" ELSE "nil"

\* getClusterName(kubeconfigPath): clientcmd.LoadFromFile must succeed.
getClusterName(kubeconfigPath) ==
    IF kubeconfigPath = "missing" THEN "no such file" ELSE "nil"

\* runComparisonMode with the two kubeconfig paths validated only when
\* their cluster is collected.
runComparisonMode_lateCheck(f, env) ==
    IF f.kubeconfig1 = "" \/ f.kubeconfig2 = ""
    THEN Outcome("compare", "comparison mode requires both --kubeconfig1 and --kubeconfig2 to be specified", <<>>)
    ELSE IF ~env.mkdirOk
    THEN Outcome("compare", "failed to create comparison directory", <<"MkdirAll">>)
    ELSE IF parseKubeConfig(f.kubeconfig1, f) # "nil"
    THEN Outcome("compare", "failed to get cluster name from kubeconfig1", <<"MkdirAll">>)
    ELSE IF ~env.workOk /\ env.failStep = 1
    THEN Outcome("compare", "failed to collect from cluster 1", <<"MkdirAll", "collect">>)
    ELSE IF parseKubeConfig(f.kubeconfig2, f) # "nil"
    THEN Outcome("compare", "failed to get cluster name from kubeconfig2",
                 <<"MkdirAll", "collect", "WriteFile outputFile1">>)
    ELSE IF ~env.workOk /\ env.failStep = 2
    THEN Outcome("compare", "failed to collect from cluster 2",
                 <<"MkdirAll", "collect", "WriteFile outputFile1", "collect">>)
    ELSE IF ~env.workOk
    THEN Outcome("compare", "failed to generate diff",
                 <<"MkdirAll", "collect", "WriteFile outputFile1",
                   "collect", "WriteFile outputFile2">>)
    ELSE Outcome("compare", "nil",
                 <<"MkdirAll", "collect", "WriteFile outputFile1",
                   "collect", "WriteFile outputFile2", "WriteFile diffFile">>)

\* runComparisonMode()
runComparisonMode(f, env) ==
    IF f.kubeconfig1 = "" \/ f.kubeconfig2 = ""
    THEN Outcome("compare", "comparison mode requires both --kubeconfig1 and --kubeconfig2 to be specified", <<>>)
    ELSE IF getClusterName(f.kubeconfig1) # "nil"
    THEN Outcome("compare", "failed to get cluster name from kubeconfig1", <<>>)
    ELSE IF getClusterName(f.kubeconfig2) # "nil"
    THEN Outcome("compare", "failed to get cluster name from kubeconfig2", <<>>)
    ELSE IF ~env.mkdirOk
    THEN Outcome("compare", "failed to create comparison directory", <<"MkdirAll">>)
    ELSE IF parseKubeConfig(f.kubeconfig1, f) # "nil"
    THEN Outcome("compare", "failed to collect from cluster 1", <<"MkdirAll">>)
    ELSE IF ~env.workOk /\ env.failStep = 1
    THEN Outcome("compare", "failed to collect from cluster 1", <<"MkdirAll", "collect">>)
    ELSE IF parseKubeConfig(f.kubeconfig2, f) # "nil"
    THEN Outcome("compare", "failed to collect from cluster 2",
                 <<"MkdirAll", "collect", "WriteFile outputFile1">>)
    ELSE IF ~env.workOk /\ env.failStep = 2
    THEN Outcome("compare", "failed to collect from cluster 2",
                 <<"MkdirAll", "collect", "WriteFile outputFile1", "collect">>)
    ELSE IF ~env.workOk
    THEN Outcome("compare", "failed to generate diff",
                 <<"MkdirAll", "collect", "WriteFile outputFile1",
                   "collect", "WriteFile outputFile2">>)
    ELSE Outcome("compare", "nil",
                 <<"MkdirAll", "collect", "WriteFile outputFile1",
                   "collect", "WriteFile outputFile2", "WriteFile diffFile">>)

\* runMustGatherMode()
runMustGatherMode(f, env) ==
    LET invalid == validateMustGatherPath(f.mustGather)
        cleaned == IF f.clean THEN <<"cleanDirectory">> ELSE <<>>
    IN  IF invalid # "nil" THEN Outcome("mustGather", invalid, <<>>)
        ELSE IF ~env.mkdirOk
        THEN Outcome("mustGather", "failed to create output directory", <<"MkdirAll">>)
        ELSE IF ~env.workOk
        THEN Outcome("mustGather", "failed to walk must-gather directory",
                     <<"MkdirAll">> \o cleaned \o <<"ingest">>)
        ELSE Outcome("mustGather", "nil", <<"MkdirAll">> \o cleaned \o <<"ingest", "WriteFile">>)

\* runMustGatherComparisonMode going on to the diff after the second
\* must-gather failed to process.
runMustGatherComparisonMode_diffAnyway(f, env) ==
    LET invalid1 == validateMustGatherPath(f.mustGather1)
        invalid2 == validateMustGatherPath(f.mustGather2)
    IN  IF invalid1 # "nil" THEN Outcome("mustGatherCompare", invalid1, <<>>)
        ELSE IF invalid2 # "nil" THEN Outcome("mustGatherCompare", invalid2, <<>>)
        ELSE IF ~env.mkdirOk
        THEN Outcome("mustGatherCompare", "failed to create comparison directory", <<"MkdirAll">>)
        ELSE IF ~env.workOk /\ env.failStep = 1
        THEN Outcome("mustGatherCompare", "failed to process must-gather 1",
                     <<"MkdirAll", "ingest">>)
        ELSE IF ~env.workOk /\ env.failStep = 2
        THEN Outcome("mustGatherCompare", "failed to process must-gather 2",
                     <<"MkdirAll", "ingest", "WriteFile outputFile1", "ingest", "WriteFile diffFile">>)
        ELSE IF ~env.workOk
        THEN Outcome("mustGatherCompare", "failed to generate diff",
                     <<"MkdirAll", "ingest", "WriteFile outputFile1",
                       "ingest", "WriteFile outputFile2">>)
        ELSE Outcome("mustGatherCompare", "nil",
                     <<"MkdirAll", "ingest", "WriteFile outputFile1",
                       "ingest", "WriteFile outputFile2", "WriteFile diffFile">>)

\* runMustGatherComparisonMode()
runMustGatherComparisonMode(f, env) ==
    LET invalid1 == validateMustGatherPath(f.mustGather1)
        invalid2 == validateMustGatherPath(f.mustGather2)
    IN  IF invalid1 # "nil" THEN Outcome("mustGatherCompare", invalid1, <<>>)
        ELSE IF invalid2 # "nil" THEN Outcome("mustGatherCompare", invalid2, <<>>)
        ELSE IF ~env.mkdirOk
        THEN Outcome("mustGatherCompare", "failed to create comparison directory", <<"MkdirAll">>)
        ELSE IF ~env.workOk /\ env.failStep = 1
        THEN Outcome("mustGatherCompare", "failed to process must-gather 1",
                     <<"MkdirAll", "ingest">>)
        ELSE IF ~env.workOk /\ env.failStep = 2
        THEN Outcome("mustGatherCompare", "failed to process must-gather 2",
                     <<"MkdirAll", "ingest", "WriteFile outputFile1", "ingest">>)
        ELSE IF ~env.workOk
        THEN Outcome("mustGatherCompare", "failed to generate diff",
                     <<"MkdirAll", "ingest", "WriteFile outputFile1",
                       "ingest", "WriteFile outputFile2">>)
        ELSE Outcome("mustGatherCompare", "nil",
                     <<"MkdirAll", "ingest", "WriteFile outputFile1",
                       "ingest", "WriteFile outputFile2", "WriteFile diffFile">>)

\* The rest of runCollector: one live collection, to a directory or a file.
runLiveMode(f, env) ==
    LET configPath == IF f.kubeconfig = "" /\ f.kubeconfig1 # "" THEN f.kubeconfig1
                      ELSE f.kubeconfig
        cleaned == IF ~f.clean THEN <<>>
                   ELSE IF f.singleFile THEN <<"Remove">> ELSE <<"cleanDirectory">>
    IN  IF parseKubeConfig(configPath, f) # "nil"
        THEN Outcome("live", "failed to get kubeconfig: kubeconfig file not found", <<>>)
        ELSE IF ~env.mkdirOk
        THEN Outcome("live", "failed to create output directory", <<"MkdirAll">>)
        ELSE IF ~env.workOk
        THEN Outcome("live", "failed to discover API resources",
                     <<"MkdirAll">> \o cleaned \o <<"collect">>)
        ELSE Outcome("live", "nil", <<"MkdirAll">> \o cleaned \o <<"collect", "WriteFile">>)

\* runCollector without the test of --must-gather against --must-gather1/2.
runCollector_unchecked(f, env) ==
    IF f.mustGather # "" /\ f.kubeconfig # ""
    THEN Outcome("none", "--must-gather and --kubeconfig are mutually exclusive", <<>>)
    ELSE IF f.mustGather # "" /\ (f.kubeconfig1 # "" \/ f.kubeconfig2 # "")
    THEN Outcome("none", "--must-gather cannot be used with --kubeconfig1 or --kubeconfig2", <<>>)
    ELSE IF (f.mustGather1 # "" \/ f.mustGather2 # "")
            /\ (f.kubeconfig # "" \/ f.kubeconfig1 # "" \/ f.kubeconfig2 # "")
    THEN Outcome("none", "--must-gather1/2 cannot be used with --kubeconfig flags", <<>>)
    ELSE IF f.mustGather1 # "" /\ f.mustGather2 # ""
    THEN runMustGatherComparisonMode(f, env)
    ELSE IF f.mustGather1 # "" \/ f.mustGather2 # ""
    THEN Outcome("none", "must-gather comparison mode requires both --must-gather1 and --must-gather2", <<>>)
    ELSE IF f.mustGather # "" THEN runMustGatherMode(f, env)
    ELSE IF f.compare \/ (f.kubeconfig1 # "" /\ f.kubeconfig2 # "")
    THEN runComparisonMode(f, env)
    ELSE runLiveMode(f, env)

\* runCollector()
runCollector(f, env) ==
    IF f.mustGather # "" /\ f.kubeconfig # ""
    THEN Outcome("none", "--must-gather and --kubeconfig are mutually exclusive", <<>>)
    ELSE IF f.mustGather # "" /\ (f.kubeconfig1 # "" \/ f.kubeconfig2 # "")
    THEN Outcome("none", "--must-gather cannot be used with --kubeconfig1 or --kubeconfig2", <<>>)
    ELSE IF (f.mustGather1 # "" \/ f.mustGather2 # "")
            /\ (f.kubeconfig # "" \/ f.kubeconfig1 # "" \/ f.kubeconfig2 # "")
    THEN Outcome("none", "--must-gather1/2 cannot be used with --kubeconfig flags", <<>>)
    ELSE IF f.mustGather # "" /\ (f.mustGather1 # "" \/ f.mustGather2 # "")
    THEN Outcome("none", "--must-gather cannot be used with --must-gather1 or --must-gather2", <<>>)
    ELSE IF f.mustGather1 # "" /\ f.mustGather2 # ""
    THEN runMustGatherComparisonMode(f, env)
    ELSE IF f.mustGather1 # "" \/ f.mustGather2 # ""
    THEN Outcome("none", "must-gather comparison mode requires both --must-gather1 and --must-gather2", <<>>)
    ELSE IF f.mustGather # "" THEN runMustGatherMode(f, env)
    ELSE IF f.compare \/ (f.kubeconfig1 # "" /\ f.kubeconfig2 # "")
    THEN runComparisonMode(f, env)
    ELSE runLiveMode(f, env)

\* The command lines: every combination of the seven mode flags, with
\* --clean and --single-file.
FlagSets ==
    [ kubeconfig : KubeconfigPaths, kubeconfig1 : KubeconfigPaths,
      kubeconfig2 : KubeconfigPaths, mustGather : MustGatherPaths,
      mustGather1 : { "", "file", "ok" }, mustGather2 : MustGatherPaths,
      compare : BOOLEAN, clean : BOOLEAN, singleFile : BOOLEAN,
      defaultKubeconfig : { "missing", "ok" } ]

\* What the file system and the cluster do once the preconditions hold:
\* MkdirAll succeeds or fails; the work succeeds or fails, and in a
\* comparison it fails at step failStep (first capture, second capture,
\* diff).
Environments ==
    { [mkdirOk |-> TRUE, workOk |-> TRUE, failStep |-> 0],
      [mkdirOk |-> FALSE, workOk |-> TRUE, failStep |-> 0] }
    \cup { [mkdirOk |-> TRUE, workOk |-> FALSE, failStep |-> k] : k \in 1..3 }

NoFlags == [ kubeconfig |-> "", kubeconfig1 |-> "", kubeconfig2 |-> "", mustGather |-> "",
             mustGather1 |-> "", mustGather2 |-> "", compare |-> FALSE, clean |-> FALSE,
             singleFile |-> FALSE, defaultKubeconfig |-> "ok" ]
NoRun == Outcome("pending", "pending", <<>>)

IdleCmd == flags = NoFlags /\ run = NoRun

\* One run of the program: main parses the flags and calls runCollector.
RunCollector ==
    /\ run = NoRun
    /\ \E f \in FlagSets, env \in Environments :
         /\ flags' = f
         /\ run' = runCollector(f, env)
    /\ UNCHANGED <<keyVars, depVars, ingestVars, diffVars, liveVars, cmpVars, normVars>>

(***************************************************************************)
(* Comparison runs: runComparisonMode, runMustGatherComparisonMode         *)
(***************************************************************************)

\* sanitizeClusterName(name)
sanitizeClusterName(name) ==
    [ i \in 1..Len(name) |-> IF name[i] \in UnsafeChars \cup {"."} THEN "-" ELSE name[i] ]

\* filepath.Base for a path that does not end in a separator.
Base(path) ==
    LET parts == Split(path, <<"/">>)
    IN  IF path = <<>> THEN <<".">> ELSE parts[Len(parts)]

\* getMustGatherName(path), for a path whose last element is a name (so
\* that filepath.Abs leaves the last element as it is).
getMustGatherName(path) ==
    LET name == Base(path)
    IN  IF Contains(name, <<"m", "u", "s", "t", "-", "g", "a", "t", "h", "e", "r">>) THEN name
        ELSE IF name = <<".">> \/ name = <<"/">> THEN <<"m", "u", "s", "t", "-", "g", "a", "t", "h", "e", "r">>
        ELSE name

ClusterNames == { <<"p", "r", "o", "d">>, <<"d", "e", "v">>,
                  <<"a", ".", "b">>, <<"a", "-", "b">> }
BundlePaths  == { <<"x", "/", "m", "g">>, <<"y", "/", "m", "g">>, <<"x", "/", "d", "e", "v">> }

\* The two sources of a comparison: the cluster names getClusterName reads
\* from the kubeconfigs, or the paths of two must-gather bundles.
SourcePairs ==
    { [kind |-> "cluster", first |-> a, second |-> b] : a, b \in ClusterNames }
    \cup { [kind |-> "mustGather", first |-> a, second |-> b] : a, b \in BundlePaths }

NoSources == [kind |-> "none", first |-> <<>>, second |-> <<>>]
IdleCmp   == sourceNames = NoSources /\ compareDir = NoFunction

SourceName(kind, source) == IF kind = "mustGather" THEN getMustGatherName(source) ELSE source

\* fmt.Sprintf("%s-resources.yaml", sanitizeClusterName(name))
captureFile(name) ==
    sanitizeClusterName(name) \o <<"-", "r", "e", "s", "o", "u", "r", "c", "e", "s",
                                    ".", "y", "a", "m", "l">>

\* os.WriteFile(name, content)
WriteFile(fs, name, content) ==
    [ n \in DOMAIN fs \cup {name} |-> IF n = name THEN content ELSE fs[n] ]

\* runComparisonMode / runMustGatherComparisonMode once the sources are
\* validated: the first capture is written, then the second, then
\* generateDiff reads both files back and writes the report.
RunComparison ==
    /\ sourceNames.kind # "none" /\ ~diff.done
    /\ LET name1 == SourceName(sourceNames.kind, sourceNames.first)
           name2 == SourceName(sourceNames.kind, sourceNames.second)
           outputFile1 == captureFile(name1)
           outputFile2 == captureFile(name2)
           written == WriteFile(WriteFile(compareDir, outputFile1, content1), outputFile2, content2)
       IN  /\ compareDir' = written
           /\ diff' = generateDiff(written[outputFile1], written[outputFile2],
                                   Str(name1), Str(name2))
    /\ UNCHANGED <<sourceNames, content1, content2,
                   keyVars, depVars, ingestVars, liveVars, cmdVars, normVars>>

(***************************************************************************)
(* The normalizer on arbitrary strings                                     *)
(***************************************************************************)

\* apiVersion / groupVersion strings and kind / resource-name strings, as a
\* must-gather document or the discovery API may hold them.
GroupVersions == { <<>>, V1, AppsV1, NetV1, <<"a", ":", "b">>, <<"a", "/", "b", "/", "c">> }
KindsAndNames == { <<>>, KindPod, NamePods, KindIngress, NameIngresses, KindProxy,
                   NameProxies, <<"S">>, <<"A", " ", "B">>, <<"a", "\\", "b">> }

KeyInputs == { [groupVersion |-> gv, name |-> n] : gv \in GroupVersions, n \in KindsAndNames }

IdleNorm == keyInput = [groupVersion |-> <<>>, name |-> <<>>] /\ keyOutput = NoFunction

Produce(form, id) ==
    /\ form \notin DOMAIN keyOutput
    /\ keyOutput' = [ f \in DOMAIN keyOutput \cup {form} |->
                        IF f = form THEN id ELSE keyOutput[f] ]
    /\ UNCHANGED <<keyInput, keyVars, depVars, ingestVars, diffVars, liveVars, cmdVars, cmpVars>>

\* key := makeResourceKey(apiVersion, kind)
MakeResourceKey == Produce("key", makeResourceKey(keyInput.groupVersion, keyInput.name))

\* processMustGatherDirectory: filename := fmt.Sprintf("%s.yaml", key)
OfflineFileName ==
    Produce("offlineFile",
            mustGatherFilename(makeResourceKey(keyInput.groupVersion, keyInput.name)))

\* collectResource: filename := formatFilename(resource.Name, groupVersion)
LiveFileName == Produce("liveFile", formatFilename(keyInput.name, keyInput.groupVersion))

\* processMustGatherDirectory: the group/version and the resource name it
\* hands to formatHeader for the file of the key.
OfflineHeader ==
    /\ "headerGroupVersion" \notin DOMAIN keyOutput
    /\ LET h == headerOfKey(makeResourceKey(keyInput.groupVersion, keyInput.name))
       IN  keyOutput' = [ f \in DOMAIN keyOutput \cup {"headerGroupVersion", "headerResource"} |->
                            IF f = "headerGroupVersion" THEN h.groupVersion
                            ELSE IF f = "headerResource" THEN h.resourceName
                            ELSE keyOutput[f] ]
    /\ UNCHANGED <<keyInput, keyVars, depVars, ingestVars, diffVars, liveVars, cmdVars, cmpVars>>

(***************************************************************************)
(* Specifications                                                          *)
(***************************************************************************)

\* The parts added to the program state by live runs, the command line,
\* comparison runs and the normalizer, at rest.
IdleRest == IdleLive /\ IdleCmd /\ IdleCmp /\ IdleNorm

\* One resource type written by the four output paths.
InitKey == /\ resType \in ResTypes /\ emitted = NoFunction
           /\ IdleDep /\ IdleIngest /\ IdleDiff /\ IdleRest
NextKey == LiveDirectory \/ LiveSingleFile \/ OfflineDirectory \/ OfflineSingleFile
SpecKey == InitKey /\ [][NextKey]_vars

\* Version detection followed by deprecation checks.
InitDep == /\ server \in Servers /\ clusterVersion = PendingVersion
           /\ query = NoQuery /\ verdict = NoVerdict
           /\ IdleKey /\ IdleIngest /\ IdleDiff /\ IdleRest
NextDep == DetectClusterVersion \/ IsDeprecated
SpecDep == InitDep /\ [][NextDep]_vars

\* A must-gather bundle ingested and rendered to a single file.
InitIngest == /\ bundle \in BundlesOf(MaxDocs) /\ fileIdx = 0 /\ fileErrs = <<>>
              /\ resourceMap = NoFunction /\ outputs = <<>>
              /\ dirOutput = NoDirOutput
              /\ IdleKey /\ IdleDep /\ IdleDiff /\ IdleRest
NextIngest == ProcessFile \/ RenderSingleFile
SpecIngest == InitIngest /\ [][NextIngest]_vars

\* The directory walk of a must-gather run alone.
NextWalk == ProcessFile
SpecWalk == InitIngest /\ [][NextWalk]_vars

\* A must-gather run in directory mode.
NextDirectory == ProcessFile \/ WriteDirectory
SpecDirectory == InitIngest /\ [][NextDirectory]_vars

\* Two captures compared.
InitDiff == /\ content1 \in LiveStreams /\ content2 \in LiveStreams /\ diff = NoDiff
            /\ IdleKey /\ IdleDep /\ IdleIngest /\ IdleRest
NextDiff == GenerateDiff
SpecDiff == InitDiff /\ [][NextDiff]_vars

\* One live collection run.
InitLive == /\ server \in LiveServers /\ clusterVersion = PendingVersion
            /\ query = NoQuery /\ verdict = NoVerdict
            /\ liveEnv \in LiveEnvs /\ livePc = "detect" /\ resIdx = 0
            /\ counts = NoCounts /\ calls = <<>> /\ liveErr = "pending" /\ buffer = <<>>
            /\ IdleKey /\ IdleIngest /\ IdleDiff /\ IdleCmd /\ IdleCmp /\ IdleNorm
NextLive == LiveDetect \/ LiveDiscover \/ LiveCollectNext \/ LiveFinish
SpecLive == InitLive /\ [][NextLive]_vars

\* One run of the program from its command line.
InitCmd == /\ IdleCmd
           /\ IdleKey /\ IdleDep /\ IdleIngest /\ IdleDiff /\ IdleLive /\ IdleCmp /\ IdleNorm
NextCmd == RunCollector
SpecCmd == InitCmd /\ [][NextCmd]_vars

\* One comparison run over two sources.
InitCompare == /\ sourceNames \in SourcePairs /\ compareDir = NoFunction
               /\ content1 \in LiveStreams /\ content2 \in LiveStreams /\ diff = NoDiff
               /\ IdleKey /\ IdleDep /\ IdleIngest /\ IdleLive /\ IdleCmd /\ IdleNorm
NextCompare == RunComparison
SpecCompare == InitCompare /\ [][NextCompare]_vars

\* Keys and file names built from arbitrary strings.
InitNorm == /\ keyInput \in KeyInputs /\ keyOutput = NoFunction
            /\ IdleKey /\ IdleDep /\ IdleIngest /\ IdleDiff /\ IdleLive /\ IdleCmd /\ IdleCmp
NextNorm == MakeResourceKey \/ OfflineFileName \/ LiveFileName \/ OfflineHeader
SpecNorm == InitNorm /\ [][NextNorm]_vars

(***************************************************************************)
(* Properties of the diff engine                                           *)
(***************************************************************************)

\* A marker line for the name occurs in the stream.
MarkerOccurs(name, content) == Contains(content, MarkerLine(name))

NoDuplicates(seq) == \A i, j \in 1..Len(seq) : seq[i] = seq[j] => i = j

StreamAB1 == liveStream(<< NamePods, NameServices >>)
StreamAB2 == liveStream(<< NamePods, NameConfigMaps >>)

\* C1: the diff has set semantics over the marker names: a name is in
\* onlyInFirst iff a marker for it occurs in the first stream and none in
\* the second, in onlyInSecond iff the converse, in common iff a marker
\* occurs in both; a stream diffed against itself gives empty onlyIn lists
\* and all its names as common; {pods, services} against {pods, configmaps}
\* gives [services], [configmaps], [pods] and the counts 2/2/1/1/1.
C1_DiffSetSemantics ==
    diff.done =>
      /\ \A n \in DiscoveryNames \cup Range(diff.onlyInCluster1)
                    \cup Range(diff.onlyInCluster2) \cup Range(diff.commonResources) :
           /\ n \in Range(diff.onlyInCluster1)
                <=> (MarkerOccurs(n, content1) /\ ~MarkerOccurs(n, content2))
           /\ n \in Range(diff.onlyInCluster2)
                <=> (MarkerOccurs(n, content2) /\ ~MarkerOccurs(n, content1))
           /\ n \in Range(diff.commonResources)
                <=> (MarkerOccurs(n, content1) /\ MarkerOccurs(n, content2))
      /\ content1 = content2 =>
           /\ diff.onlyInCluster1 = <<>>
           /\ diff.onlyInCluster2 = <<>>
           /\ Range(diff.commonResources) = { n \in DiscoveryNames : MarkerOccurs(n, content1) }
      /\ (content1 = StreamAB1 /\ content2 = StreamAB2) =>
           /\ diff.onlyInCluster1 = << NameServices >>
           /\ diff.onlyInCluster2 = << NameConfigMaps >>
           /\ diff.commonResources = << NamePods >>
           /\ SubSeq(diff.report, Len(diff.report) - 4, Len(diff.report))
                = << "Total resources in cluster1: 2",
                     "Total resources in cluster2: 2",
                     "Only in cluster1: 1",
                     "Only in cluster2: 1",
                     "Common to both: 1" >>

\* The diff of {pods, services} against {pods, configmaps} has been made.
C1_Witness ==
    /\ diff.done /\ content1 = StreamAB1 /\ content2 = StreamAB2
    /\ diff.onlyInCluster1 = << NameServices >>

\* C2: each of onlyInFirst, onlyInSecond and common holds every type name
\* at most once, also when a marker name occurs more than once in a stream.
C2_DiffListsDeduplicated ==
    diff.done =>
      /\ NoDuplicates(diff.onlyInCluster1)
      /\ NoDuplicates(diff.onlyInCluster2)
      /\ NoDuplicates(diff.commonResources)

(***************************************************************************)
(* Properties of the identifiers of one resource type                      *)
(***************************************************************************)

\* C5: for a resource type whose discovery name is the lower-cased kind
\* plus "s", the live path and the offline path emit the same identifier,
\* both as directory-mode file name and as the section-marker name the diff
\* engine extracts.
C5_CrossPathConsistent ==
    resType.name = ToLower(resType.kind) \o <<"s">> =>
      /\ {"liveFile", "offlineFile"} \subseteq DOMAIN emitted =>
           emitted["liveFile"] = emitted["offlineFile"]
      /\ {"liveStream", "offlineStream"} \subseteq DOMAIN emitted =>
           parseResources(emitted["liveStream"]) = parseResources(emitted["offlineStream"])

(***************************************************************************)
(* Properties of the deprecation policy engine                             *)
(***************************************************************************)

\* The built-in rules as the specification states them: the pair, the
\* version the rule applies from, and whether it is platform-specific.
StatedRules ==
    { [gv |-> "v1", name |-> "componentstatuses", from |-> <<1, 19>>, platform |-> FALSE],
      [gv |-> "v1", name |-> "endpoints", from |-> <<1, 33>>, platform |-> FALSE],
      [gv |-> "apps.openshift.io/v1", name |-> "deploymentconfigs", from |-> <<4, 14>>,
       platform |-> TRUE] }

\* major-then-minor comparison of two (major, minor) pairs
PairAtLeast(a, b) == a[1] > b[1] \/ (a[1] = b[1] /\ a[2] >= b[2])

RuleFires(r, q, cv) ==
    /\ r.gv = Str(q.gv) /\ r.name = Str(q.name)
    /\ (~r.platform \/ cv.IsOpenShift)
    /\ PairAtLeast(IF r.platform
                   THEN <<cv.OpenShiftMajor, cv.OpenShiftMinor>>
                   ELSE <<cv.Major, cv.Minor>>, r.from)

RECURSIVE BundleDocs(_)
BundleDocs(files) ==
    IF files = <<>> THEN <<>>
    ELSE (IF Head(files).readable THEN Head(files).docs ELSE <<>>) \o BundleDocs(Tail(files))

\* The node has a non-empty string apiVersion and a non-empty string kind.
HasKeyFields(n) ==
    /\ n.node = "map"
    /\ n.apiVersion.t = "str" /\ n.apiVersion.v # <<>>
    /\ n.kind.t = "str" /\ n.kind.v # <<>>

IsList(n) == HasKeyFields(n) /\ Str(n.kind.v) = "List"

KeyOf(n) == makeResourceKey(n.apiVersion.v, n.kind.v)

WalkDone == fileIdx = Len(bundle)

\* The documents of a bundle: every YAML document with apiVersion and kind,
\* each entry of a List document's items counting as its own document and
\* the List wrapper as none.
RECURSIVE DocumentsOf(_)
DocumentsOf(docs) ==
    IF docs = <<>> THEN <<>>
    ELSE LET d == Head(docs)
         IN  (IF d.form # "yaml" \/ ~HasKeyFields(d.node) THEN <<>>
              ELSE IF IsList(d.node)
                   THEN (IF d.node.items.t = "list"
                         THEN SelectSeq(d.node.items.v, HasKeyFields)
                         ELSE <<>>)
              ELSE << d.node >>)
             \o DocumentsOf(Tail(docs))

GroupedByKey(documents) ==
    [ key \in { KeyOf(n) : n \in Range(documents) } |->
        SelectSeq(documents, LAMBDA n : KeyOf(n) = key) ]

ListAndService == << [readable |-> TRUE,
                      docs |-> << YamlDoc(FALSE, ListPods), YamlDoc(FALSE, Svc) >>] >>

\* C3: the single-file rendering emits the sections in ascending order of
\* their keys, so that two renderings of the same inventory are identical.
C3_RenderingSortedAndRepeatable ==
    /\ \A r \in 1..Len(outputs) :
         \A i, j \in 1..Len(outputs[r].keys) :
           i < j => StrLess(outputs[r].keys[i], outputs[r].keys[j])
    /\ \A r1, r2 \in 1..Len(outputs) : outputs[r1].text = outputs[r2].text

\* C4: the markers parseResources extracts from a rendering are exactly the
\* keys of the inventory, each once, whatever the items contain.
C4_MarkerRoundTrip ==
    \A r \in 1..Len(outputs) :
      LET markers == parseResources(outputs[r].text)
      IN  /\ Range(markers) = DOMAIN resourceMap
          /\ Len(markers) = Cardinality(DOMAIN resourceMap)

\* C7: after ingestion every key maps to exactly the documents whose
\* (apiVersion, kind) normalize to it, in the order encountered, the entries
\* of a List counting as documents and the List wrapper as none; one List of
\* two Pods and one Service give v1-pods with 2 items and v1-services with 1.
C7_InventoryGroupsDocuments ==
    WalkDone =>
      /\ resourceMap = GroupedByKey(DocumentsOf(BundleDocs(bundle)))
      /\ bundle = ListAndService =>
           /\ { Str(k) : k \in DOMAIN resourceMap } = { "v1-pods", "v1-services" }
           /\ \A k \in DOMAIN resourceMap :
                Len(resourceMap[k]) = (IF Str(k) = "v1-pods" THEN 2 ELSE 1)

\* C8: no inventory entry is a document of kind List and no key is derived
\* from kind List, also for a List that is an entry of another List.
C8_NoListInInventory ==
    \A key \in DOMAIN resourceMap :
      /\ ~HasSuffix(key, <<"-", "l", "i", "s", "t", "s">>)
      /\ \A i \in 1..Len(resourceMap[key]) : ~IsList(resourceMap[key][i])

\* C9: a candidate is discarded before parsing only if it is empty or holds
\* comments only; a candidate that starts with a comment line and then
\* holds a mapping with apiVersion and kind is in the inventory under its key.
C9_CommentLedDocumentIngested ==
    WalkDone =>
      \A d \in Range(BundleDocs(bundle)) :
        (d.form = "yaml" /\ d.comment /\ HasKeyFields(d.node) /\ ~IsList(d.node)) =>
          /\ KeyOf(d.node) \in DOMAIN resourceMap
          /\ d.node \in Range(resourceMap[KeyOf(d.node)])

\* The bundle in which every document without apiVersion or kind is
\* replaced by a comment-only document and every such entry of a List is
\* deleted.
WithoutLacking(d) ==
    IF d.form # "yaml" THEN d
    ELSE IF ~HasKeyFields(d.node) THEN CommentOnlyDoc
    ELSE IF IsList(d.node) /\ d.node.items.t = "list"
         THEN [d EXCEPT !.node.items = ItemsF(SelectSeq(d.node.items.v, HasKeyFields))]
    ELSE d

BundleWithoutLacking ==
    [ i \in 1..Len(bundle) |->
        [bundle[i] EXCEPT !.docs = [ j \in 1..Len(bundle[i].docs) |->
                                       WithoutLacking(bundle[i].docs[j]) ]] ]

RECURSIVE IngestAll(_, _)
IngestAll(files, rm) ==
    IF files = <<>> THEN rm
    ELSE IngestAll(Tail(files), processMustGatherFile(Head(files), rm).resourceMap)

\* C10: a document or List entry without a non-empty string apiVersion or
\* kind is dropped: it is under no key, the other documents of the file and
\* the other entries of the List are ingested as they are without it, and
\* processing the file reports no error.
C10_LackingDocumentDropped ==
    /\ \A key \in DOMAIN resourceMap :
         \A i \in 1..Len(resourceMap[key]) : HasKeyFields(resourceMap[key][i])
    /\ \A i \in 1..fileIdx : bundle[i].readable => fileErrs[i] = "nil"
    /\ WalkDone => resourceMap = IngestAll(BundleWithoutLacking, NoFunction)

\* A List with entries that lack the fields and entries that have them, and
\* a document without kind, have been ingested next to valid documents.
C10_Witness ==
    /\ WalkDone
    /\ \E d \in Range(BundleDocs(bundle)) : d = YamlDoc(FALSE, ListMixed)
    /\ \E d \in Range(BundleDocs(bundle)) : d = YamlDoc(FALSE, NoKind)
    /\ DOMAIN resourceMap # {}

(***************************************************************************)
(* Properties of a live collection run                                     *)
(***************************************************************************)

\* The dynamic client was asked to list the i-th discovered resource.
Listed(i) == \E k \in 1..Len(calls) : calls[k] = [op |-> "List", idx |-> i]

\* shouldSkipResource was called for the i-th discovered resource.
Consulted(i) == \E k \in 1..Len(calls) : calls[k] = [op |-> "shouldSkipResource", idx |-> i]

\* The i-th discovered resource is no subresource and has both verbs.
PassesFilters(i) ==
    LET r == liveEnv.resources[i]
    IN  /\ \A k \in 1..Len(r.name) : r.name[k] # "/"
        /\ \E k \in 1..Len(r.verbs) : r.verbs[k] = "list"
        /\ \E k \in 1..Len(r.verbs) : r.verbs[k] = "get"

\* The engine reports skip for the i-th discovered resource.
EngineSkips(i) ==
    /\ clusterVersion.state = "set"
    /\ isDeprecated(liveEnv.resources[i].name, liveEnv.resources[i].gv, clusterVersion).deprecated

LiveErrors == { "pending", "nil", "failed to discover API resources", "failed to write file" }

\* C11: a fetch failure is counted in the error count and never aborts the
\* run: the loop reaches every discovered resource, every later eligible one
\* is still fetched, and the run returns nil whenever discovery and the
\* final write succeed.
C11_FetchFailureNeverAborts ==
    /\ counts.errors =
         Cardinality({ i \in 1..resIdx : Listed(i) /\ ~liveEnv.resources[i].fetchOk })
    /\ counts.collected =
         Cardinality({ i \in 1..resIdx : Listed(i) /\ liveEnv.resources[i].fetchOk })
    /\ liveErr \in LiveErrors
    /\ (livePc = "done" /\ liveEnv.discoveryOk) =>
         /\ resIdx = Len(liveEnv.resources)
         /\ \A i, j \in 1..Len(liveEnv.resources) :
              (i < j /\ Listed(i) /\ ~liveEnv.resources[i].fetchOk
                 /\ PassesFilters(j) /\ ~EngineSkips(j)) => Listed(j)
         /\ (liveEnv.singleFile => liveEnv.writeOk) => liveErr = "nil"

\* A run returned nil although a fetch failed, and a later resource was
\* fetched after the failure.
C11_Witness ==
    /\ livePc = "done" /\ liveErr = "nil" /\ counts.errors >= 1
    /\ \E i, j \in 1..resIdx : i < j /\ Listed(i) /\ ~liveEnv.resources[i].fetchOk /\ Listed(j)

\* C12: when version detection fails the run goes on, the engine is never
\* consulted, every resource that passes the subresource and verb filters
\* is fetched and the skip count stays 0.
C12_FailOpen ==
    clusterVersion.state = "nil" =>
      /\ livePc \in { "discover", "loop", "done" }
      /\ liveErr \in LiveErrors
      /\ \A i \in 1..Len(liveEnv.resources) : ~Consulted(i)
      /\ counts.skipped = 0
      /\ \A i \in 1..resIdx : PassesFilters(i) => Listed(i)
      /\ (livePc = "done" /\ liveEnv.discoveryOk) => resIdx = Len(liveEnv.resources)

\* Detection failed on a version string and the run fetched v1/endpoints,
\* which a rule names.
C12_Witness ==
    /\ clusterVersion.state = "nil" /\ server.versionOk /\ livePc = "done" /\ liveErr = "nil"
    /\ \E i \in 1..resIdx :
         /\ liveEnv.resources[i].name = NameEndpoints /\ liveEnv.resources[i].gv = V1
         /\ Listed(i)

\* C13: a discovered resource is fetched iff its name holds no '/', its
\* verbs include list and get and, with a detected version, the engine does
\* not report skip; the engine is asked, and a skip counted, only for a
\* resource that passed the first two filters.
C13_FetchIffFilters ==
    /\ \A i \in 1..resIdx :
         /\ Listed(i) <=> (PassesFilters(i) /\ ~EngineSkips(i))
         /\ Consulted(i) => PassesFilters(i)
    /\ \A i \in (resIdx + 1)..Len(liveEnv.resources) : ~Listed(i) /\ ~Consulted(i)
    /\ counts.skipped = Cardinality({ i \in 1..resIdx : PassesFilters(i) /\ EngineSkips(i) })

\* At a version that deprecates v1/endpoints the loop has passed an
\* endpoints entry without the list verb (not counted) and one with both
\* verbs (skipped and counted).
C13_Witness ==
    /\ clusterVersion.state = "set"
    /\ \E i \in 1..resIdx :
         /\ liveEnv.resources[i].name = NameEndpoints /\ ~PassesFilters(i) /\ EngineSkips(i)
    /\ \E i \in 1..resIdx :
         /\ liveEnv.resources[i].name = NameEndpoints /\ PassesFilters(i) /\ ~Listed(i)
    /\ counts.skipped = 1

(***************************************************************************)
(* Properties of the command line                                          *)
(***************************************************************************)

Ran == run # NoRun

\* A must-gather path that validateMustGatherPath must reject.
BadMustGather(path) == path \in { "missing", "file", "unreadable", "emptydir" }

AnyKubeconfig == flags.kubeconfig # "" \/ flags.kubeconfig1 # "" \/ flags.kubeconfig2 # ""
AnyMustGather == flags.mustGather # "" \/ flags.mustGather1 # "" \/ flags.mustGather2 # ""

\* The kubeconfig path a single live collection reads.
LiveKubeconfig ==
    IF flags.kubeconfig # "" THEN flags.kubeconfig
    ELSE IF flags.kubeconfig1 # "" THEN flags.kubeconfig1
    ELSE flags.defaultKubeconfig

\* The run met a fatal precondition failure: a rejected flag combination, a
\* kubeconfig that does not exist, or an invalid must-gather path.
PreconditionFailed ==
    \/ run.mode = "none"
    \/ run.mode = "mustGather" /\ BadMustGather(flags.mustGather)
    \/ run.mode = "mustGatherCompare"
         /\ (BadMustGather(flags.mustGather1) \/ BadMustGather(flags.mustGather2))
    \/ run.mode = "compare"
         /\ \E k \in { flags.kubeconfig1, flags.kubeconfig2 } : k \in { "", "missing" }
    \/ run.mode = "live" /\ LiveKubeconfig = "missing"

C15_OneModeOrError ==
    Ran =>
      /\ run.mode \in { "none", "live", "compare", "mustGather", "mustGatherCompare" }
      /\ run.mode = "none" => run.err # "nil"
      /\ (AnyMustGather /\ AnyKubeconfig) => run.mode = "none"
      /\ (flags.mustGather # "" /\ (flags.mustGather1 # "" \/ flags.mustGather2 # ""))
           => run.mode = "none"
      /\ ((flags.mustGather1 = "") # (flags.mustGather2 = "")) => run.mode = "none"
      /\ run.mode = "mustGather" => (flags.mustGather # "" /\ ~AnyKubeconfig)
      /\ run.mode = "mustGatherCompare" =>
           (flags.mustGather1 # "" /\ flags.mustGather2 # "" /\ ~AnyKubeconfig)
      /\ run.mode \in { "live", "compare" } => ~AnyMustGather

\* --must-gather with both --must-gather1 and --must-gather2 was rejected.
C15_Witness ==
    /\ run.mode = "none" /\ ~AnyKubeconfig
    /\ flags.mustGather # "" /\ flags.mustGather1 # "" /\ flags.mustGather2 # ""

\* C17: with --compare set and --kubeconfig1 or --kubeconfig2 missing the
\* run fails with 'comparison mode requires both --kubeconfig1 and
\* --kubeconfig2 to be specified' and collects and ingests nothing,
\* whatever the other flags are.
C17_CompareNeedsBothKubeconfigs ==
    (Ran /\ flags.compare /\ (flags.kubeconfig1 = "" \/ flags.kubeconfig2 = "")) =>
      /\ run.err = "comparison mode requires both --kubeconfig1 and --kubeconfig2 to be specified"
      /\ \A i \in 1..Len(run.effects) : run.effects[i] \notin { "collect", "ingest" }

(***************************************************************************)
(* Properties of a comparison run                                          *)
(***************************************************************************)

\* C16: after a comparison run the comparison directory holds one capture
\* file per source, the first with the first source's inventory and the
\* second with the second's, and the report compares the first source's
\* resource types with the second's, for every pair of source names.
C16_CapturesKeptApart ==
    diff.done =>
      LET name1 == SourceName(sourceNames.kind, sourceNames.first)
          name2 == SourceName(sourceNames.kind, sourceNames.second)
      IN  /\ Cardinality(DOMAIN compareDir) = 2
          /\ compareDir[captureFile(name1)] = content1
          /\ compareDir[captureFile(name2)] = content2
          /\ diff.resources1 = parseResources(content1)
          /\ diff.resources2 = parseResources(content2)

(***************************************************************************)
(* Properties of the normalizer                                            *)
(***************************************************************************)

EndsInS(kind) == kind # <<>> /\ kind[Len(kind)] \in { "s", "S" }

\* C18: makeResourceKey is apiVersion with every '/' replaced by '-', then
\* '-', then the lower-cased kind with 's' appended unless it ends in 's';
\* a plural lower-case name is kept, pluralizing twice equals once, and
\* Ingress and Proxy give keys that differ from those of ingresses, proxies.
C18_MakeResourceKeyHeuristic ==
    "key" \in DOMAIN keyOutput =>
      LET av   == keyInput.groupVersion
          kind == keyInput.name
          key  == keyOutput["key"]
          part == SubSeq(key, Len(av) + 2, Len(key))
      IN  /\ Len(key) = Len(av) + 1 + Len(kind) + (IF EndsInS(kind) THEN 0 ELSE 1)
          /\ \A i \in 1..Len(av) : key[i] = (IF av[i] = "/" THEN "-" ELSE av[i])
          /\ key[Len(av) + 1] = "-"
          /\ \A i \in 1..Len(kind) : key[Len(av) + 1 + i] = ToLowerChar(kind[i])
          /\ ~EndsInS(kind) => key[Len(key)] = "s"
          /\ makeResourceKey(av, part) = key
          /\ kind \in { NamePods, NameIngresses, NameProxies } => part = kind
          /\ kind = KindIngress => key # makeResourceKey(av, NameIngresses)
          /\ kind = KindProxy => key # makeResourceKey(av, NameProxies)
          /\ (av = AppsV1 /\ kind = KindPod) => Str(key) = "apps-v1-pods"

\* The key of apps/v1 with the plural name "pods" has been built.
C18_Witness ==
    /\ "key" \in DOMAIN keyOutput
    /\ keyInput = [groupVersion |-> AppsV1, name |-> NamePods]
    /\ Str(keyOutput["key"]) = "apps-v1-pods"

\* C19: no key and no file name built from a key or from a (groupVersion,
\* resource name) pair holds a filesystem-unsafe character, on the live and
\* on the offline path.
C19_NoUnsafeCharacter ==
    \A f \in DOMAIN keyOutput \cap { "key", "offlineFile", "liveFile" } :
      \A i \in 1..Len(keyOutput[f]) : keyOutput[f][i] \notin UnsafeChars

FailedDocument(d) ==
    d.form = "invalid" \/ (d.form = "yaml" /\ ~HasKeyFields(d.node))

FailedDocuments == SelectSeq(BundleDocs(bundle), FailedDocument)

UnreadableFiles == SelectSeq(bundle, LAMBDA f : ~f.readable)

\* The keys processMustGatherDirectory tried to write and could not.
FailedWrites ==
    { k \in DOMAIN resourceMap :
        Len(resourceMap[k]) > 0 /\ mustGatherFilename(k) \notin DOMAIN dirOutput.files }

\* C21 as stated: every document that fails to parse and every document
\* without apiVersion or kind adds one to the error count of the summary,
\* next to the unreadable files and the failed writes, and none of them
\* stops the run.
C21_EveryFailureCounted ==
    dirOutput.done =>
      /\ dirOutput.err = "nil" /\ fileIdx = Len(bundle)
      /\ dirOutput.errorCount =
           Len(FailedDocuments) + Len(UnreadableFiles) + Cardinality(FailedWrites)

\* C21 amended: no per-unit failure stops the run; the error count of the
\* summary is the number of files that could not be read plus the number of
\* output files that could not be written, and a document that fails to
\* parse or lacks apiVersion or kind is dropped without being counted.
\* The run that reaches its summary has visited every file and returns no
\* error.
C21_OnlyFileAndWriteFailuresCounted ==
    dirOutput.done =>
      /\ dirOutput.err = "nil" /\ fileIdx = Len(bundle)
      /\ dirOutput.errorCount = Len(UnreadableFiles) + Cardinality(FailedWrites)
      /\ dirOutput.collectedCount = Cardinality(DOMAIN dirOutput.files)

\* A run over an unreadable file and a document that does not parse has
\* ended with an error count of one.
C21_Witness ==
    /\ dirOutput.done
    /\ Len(UnreadableFiles) = 1
    /\ \E i \in 1..Len(FailedDocuments) : FailedDocuments[i].form = "invalid"
    /\ dirOutput.errorCount = 1

\* C22: when the two captures name exactly the same resource types, the
\* report generateDiff writes is empty (zero bytes).
C22_EqualCapturesGiveEmptyReport ==
    (diff.done /\ Range(diff.resources1) = Range(diff.resources2))
      => diff.report = <<>>

\* The i-th discovered resource is the replacement the rule for v1/endpoints
\* names.
IsEndpointSlices(i) ==
    /\ liveEnv.resources[i].gv = GVDiscovery
    /\ liveEnv.resources[i].name = NameEndpointSlices

\* C23: a run that skips v1/endpoints as deprecated collects its
\* replacement, discovery.k8s.io/v1 endpointslices.
C23_ReplacementCollected ==
    (livePc = "done" /\ liveErr = "nil") =>
      \A i \in 1..Len(liveEnv.resources) :
        ( /\ liveEnv.resources[i].gv = V1 /\ liveEnv.resources[i].name = NameEndpoints
          /\ PassesFilters(i) /\ EngineSkips(i) /\ ~Listed(i) )
          => \E j \in 1..Len(liveEnv.resources) :
               IsEndpointSlices(j) /\ Listed(j) /\ liveEnv.resources[j].fetchOk

\* C24: a directory-mode live run creates the output directory, and with
\* --clean empties it, before any step that can fail: the run that ends with
\* an error has done both, unless creating the directory is what failed.
C24_DirectoryReadyBeforeFailure ==
    (Ran /\ run.mode = "live" /\ ~flags.singleFile /\ run.err # "nil") =>
      /\ run.effects # <<>> /\ run.effects[1] = "MkdirAll"
      /\ (flags.clean /\ run.err # "failed to create output directory")
           => (Len(run.effects) >= 2 /\ run.effects[2] = "cleanDirectory")

\* C25: the header of a file written in offline directory mode names the
\* group/version and the plural resource name its key was built from: the
\* group/version of the header is the apiVersion with '/' written as '-',
\* and the resource name is the rest of the key after the separator.
C25_HeaderInvertsKey ==
    ( /\ "headerGroupVersion" \in DOMAIN keyOutput
      /\ keyInput.groupVersion # <<>> /\ keyInput.name # <<>> ) =>
      LET key == makeResourceKey(keyInput.groupVersion, keyInput.name)
          gv  == ReplaceAll(keyInput.groupVersion, "/", "-")
      IN  /\ keyOutput["headerGroupVersion"] = gv
          /\ keyOutput["headerResource"] = SubSeq(key, Len(gv) + 2, Len(key))

\* The side effects of a comparison that runs to its end.
ComparisonSteps ==
    LET capture == IF run.mode = "compare" THEN "collect" ELSE "ingest"
    IN  << "MkdirAll", capture, "WriteFile outputFile1",
           capture, "WriteFile outputFile2", "WriteFile diffFile" >>

\* C26: in both comparison modes the side effects are an initial part of
\* the sequence: directory created, first capture taken and written, second
\* capture taken and written, diff written.  The run returns nil exactly
\* when it did all of them, and a run that returns an error wrote no diff.
C26_ComparisonStepsOrdered ==
    (Ran /\ run.mode \in { "compare", "mustGatherCompare" }) =>
      /\ Len(run.effects) <= Len(ComparisonSteps)
      /\ \A i \in 1..Len(run.effects) : run.effects[i] = ComparisonSteps[i]
      /\ run.err = "nil" <=> run.effects = ComparisonSteps
      /\ run.err # "nil" =>
           \A i \in 1..Len(run.effects) : run.effects[i] # "WriteFile diffFile"

\* A must-gather comparison has stopped at the second capture: the first
\* capture is written, the second and the diff are not.
C26_Witness ==
    /\ run.mode = "mustGatherCompare"
    /\ run.err = "failed to process must-gather 2"
    /\ run.effects = << "MkdirAll", "ingest", "WriteFile outputFile1", "ingest" >>

\* The names of the resources collected so far, in the order of the loop.
CollectedNames ==
    LET idxs == SelectSeq([ i \in 1..resIdx |-> i ],
                          LAMBDA i : Listed(i) /\ liveEnv.resources[i].fetchOk)
    IN  [ k \in 1..Len(idxs) |-> liveEnv.resources[idxs[k]].name ]

Eligible(n) == { i \in 1..n : PassesFilters(i) }

\* C28: at every point of the loop and at its end the three counters add
\* up to the number of processed resources that passed the subresource and
\* verb filters; a step over such a resource raises exactly one counter by
\* one, a step over any other resource raises none, and no counter ever
\* decreases.
C28_CountersPartitionEligible ==
    /\ [](counts.collected + counts.errors + counts.skipped = Cardinality(Eligible(resIdx)))
    /\ [][ /\ counts'.collected >= counts.collected
           /\ counts'.errors >= counts.errors
           /\ counts'.skipped >= counts.skipped
           /\ (counts'.collected + counts'.errors + counts'.skipped)
                - (counts.collected + counts.errors + counts.skipped)
              = Cardinality(Eligible(resIdx')) - Cardinality(Eligible(resIdx)) ]_vars

\* A run at a version that deprecates v1/endpoints has ended with one
\* resource skipped and one fetch failed.
C28_Witness ==
    /\ livePc = "done" /\ resIdx = 2
    /\ counts = [collected |-> 0, errors |-> 1, skipped |-> 1]

\* The relevant (major, minor) pair of a version for a query: the OpenShift
\* pair when the rule naming the query is OpenShift-specific, else the
\* Kubernetes pair.
RelevantPair(q, cv) ==
    IF \E k \in 1..Len(getDeprecationRules) :
         /\ getDeprecationRules[k].GroupVersion = q.gv
         /\ getDeprecationRules[k].Resource = q.name
         /\ getDeprecationRules[k].IsOpenShift
    THEN << cv.OpenShiftMajor, cv.OpenShiftMinor >>
    ELSE << cv.Major, cv.Minor >>

\* The versions detectClusterVersion can return.
DetectedVersions ==
    { cv \in { detectClusterVersion(srv) : srv \in Servers } : cv.state = "set" }

\* C29: deprecation is monotonic in the version: when isDeprecated reports
\* skip for a query at a version, it reports skip with the same replacement
\* at every version with the same OpenShift flag whose relevant (major,
\* minor) pair is at least as great under major-then-minor comparison.
C29_DeprecationMonotonic ==
    (verdict.asked /\ verdict.deprecated) =>
      \A later \in DetectedVersions :
        ( /\ later.IsOpenShift = clusterVersion.IsOpenShift
          /\ PairAtLeast(RelevantPair(query, later), RelevantPair(query, clusterVersion)) )
          => LET v == isDeprecated(query.name, query.gv, later)
             IN  /\ v.deprecated
                 /\ v.replacementGV = verdict.replacementGV
                 /\ v.replacementResource = verdict.replacementResource

\* v1/endpoints has been found deprecated at 1.33, the first version of its
\* rule, with later versions (1.34+, 2.0) to compare it with.
C29_Witness ==
    /\ verdict.asked /\ verdict.deprecated
    /\ query = [gv |-> V1, name |-> NameEndpoints]
    /\ clusterVersion.Major = 1 /\ clusterVersion.Minor = 33
    /\ \E later \in DetectedVersions : later.Major = 2 /\ later.Minor = 0

\* C30: detectClusterVersion flags OpenShift iff ServerGroups() succeeded
\* and a served group name contains "openshift.io"; the OpenShift version
\* is then 4.(14 + minor - 27) for a Kubernetes minor of at least 27 and 4.0
\* below (1.30 gives 4.17), so that apps.openshift.io/v1 deploymentconfigs
\* is skipped on an OpenShift cluster iff its Kubernetes minor is at least
\* 27.
C30_OpenShiftEstimate ==
    clusterVersion.state = "set" =>
      LET cv == clusterVersion
      IN  /\ cv.IsOpenShift <=>
               (server.groupsOk /\ \E i \in 1..Len(server.groups) :
                                      server.groups[i] = GroupConfigOpenShift)
          /\ cv.IsOpenShift =>
               /\ cv.OpenShiftMajor = 4
               /\ cv.OpenShiftMinor = IF cv.Minor >= 27 THEN 14 + cv.Minor - 27 ELSE 0
               /\ (cv.Major = 1 /\ cv.Minor = 30) => cv.OpenShiftMinor = 17
          /\ ( /\ verdict.asked /\ cv.IsOpenShift
               /\ query = [gv |-> GVOpenShiftApps, name |-> NameDeploymentConfigs] )
               => (verdict.deprecated <=> cv.Minor >= 27)

\* On an OpenShift cluster at Kubernetes 1.27, estimated 4.14,
\* deploymentconfigs have been found deprecated.
C30_Witness ==
    /\ clusterVersion.state = "set" /\ clusterVersion.IsOpenShift
    /\ clusterVersion.Minor = 27 /\ clusterVersion.OpenShiftMinor = 14
    /\ verdict.asked /\ verdict.deprecated
    /\ query = [gv |-> GVOpenShiftApps, name |-> NameDeploymentConfigs]

====
